---------------------------- MODULE Spec2Model ----------------------------
(***************************************************************************)
(* A model of the crawl-and-ingest engine of src/src/cne_scraper.py:       *)
(* the Fetch Client (fetch, fetch_navigation_robust), the Asset Store       *)
(* (descargar_asset), the Record Builder (procesar_mesa_task and its inner *)
(* extraer_votos), the store, the bounded task queue, the worker pool      *)
(* (worker) and the orchestrator with the Navigator (main).                *)
(*                                                                         *)
(* Specifications:                                                         *)
(*   ExtractSpec  extraer_votos applied to one decoded response            *)
(*   RecordSpec   one worker handling one dequeued work item               *)
(*   PlanSpec     two workers making the data calls of their items         *)
(*   AssetSpec    two workers downloading the assets of their items        *)
(*   FetchSpec    one call of fetch                                        *)
(*   FetchLive    FetchSpec with every attempt eventually answered         *)
(*   RobustSpec   one call of fetch_navigation_robust                      *)
(*   Spec         Navigator, queue and workers over one run with           *)
(*                well-formed discovery listings                           *)
(*   LiveSpec     Spec under fair scheduling of main and the workers       *)
(*   CrawlSpec    Spec with malformed discovery listings and store errors  *)
(*                in main                                                  *)
(***************************************************************************)
EXTENDS Integers, Sequences, FiniteSets, TLC

(***************************************************************************)
(* Decoded JSON values (what response.json() returns).  Every value is a   *)
(* record tagged by t; Python's None is JNull.  Numbers are kept in tenths *)
(* (x10) so that a float such as 7.5 and its int() truncation differ.      *)
(***************************************************************************)
JNull == [t |-> "null"]
JInt(n) == [t |-> "int", n |-> n]
JFloat(k) == [t |-> "float", x10 |-> k]
JBool(b) == [t |-> "bool", b |-> b]
JStr(s) == [t |-> "str", s |-> s]
JList(l) == [t |-> "list", items |-> l]
JDict(d) == [t |-> "dict", d |-> d]
EmptyDict == [k \in {} |-> JNull]

\* Outcome of a Python expression: a value, or an exception raised.
Ok(v) == [ok |-> TRUE, val |-> v]
Raise(e) == [ok |-> FALSE, err |-> e]

\* Python truthiness (used by "x or {}", "if not x", "if url").
Truthy(v) ==
    CASE v.t = "null" -> FALSE
      [] v.t = "int" -> v.n # 0
      [] v.t = "float" -> v.x10 # 0
      [] v.t = "bool" -> v.b
      [] v.t = "str" -> v.s # ""
      [] v.t = "list" -> v.items # <<>>
      [] v.t = "dict" -> DOMAIN v.d # {}

\* isinstance(v, (int, float)): bool is a subclass of int.
IsPyNumber(v) == v.t \in {"int", "float", "bool"}

\* The value of a Python number, in tenths.
X10(v) ==
    CASE v.t = "int" -> v.n * 10
      [] v.t = "float" -> v.x10
      [] v.t = "bool" -> IF v.b THEN 10 ELSE 0

\* a + b on Python numbers: float if either operand is a float.
PyAdd(a, b) ==
    IF a.t = "float" \/ b.t = "float"
    THEN JFloat(X10(a) + X10(b))
    ELSE JInt((X10(a) + X10(b)) \div 10)

\* int(v) on a Python number: truncation toward zero.
PyInt(v) ==
    IF X10(v) >= 0 THEN JInt(X10(v) \div 10) ELSE JInt(-((-X10(v)) \div 10))

\* d.get(key, default) on a dict payload.
DictGet(d, key, default) == IF key \in DOMAIN d THEN d[key] ELSE default

\* "for item in v": the items iterated, or TypeError for a non-iterable.
\* A str iterates its characters and a dict its keys (each a str).
PyIter(v) ==
    CASE v.t = "list" -> Ok(v.items)
      [] v.t = "str" -> Ok(IF v.s = "" THEN <<>> ELSE <<JStr("c")>>)
      [] v.t = "dict" ->
            Ok(IF DOMAIN v.d = {} THEN <<>>
               ELSE <<JStr(CHOOSE k \in DOMAIN v.d : TRUE)>>)
      [] OTHER -> Raise("TypeError")

\* The loop body "total += item.get('votos', 0)" over items, from total.
RECURSIVE SumarVotos(_, _)
SumarVotos(items, total) ==
    IF items = <<>> THEN Ok(total)
    ELSE LET item == Head(items) IN
         IF item.t # "dict" THEN Raise("AttributeError")
         ELSE LET v == DictGet(item.d, "votos", JInt(0)) IN
              IF ~IsPyNumber(v) THEN Raise("TypeError")
              ELSE SumarVotos(Tail(items), PyAdd(total, v))

\* A plausible slip: a keyed object is only looked up for a direct votos field.
extraer_votos_sin_resultados(resp) ==
    IF resp.t = "null" THEN Ok(JInt(0))
    ELSE IF IsPyNumber(resp) THEN Ok(PyInt(resp))
    ELSE IF resp.t = "list" THEN SumarVotos(resp.items, JInt(0))
    ELSE IF resp.t = "dict" /\ "votos" \in DOMAIN resp.d
         THEN (IF IsPyNumber(resp.d["votos"])
               THEN Ok(PyAdd(JInt(0), resp.d["votos"])) ELSE Raise("TypeError"))
    ELSE Ok(JInt(0))

extraer_votos(resp) ==
    IF resp.t = "null" THEN Ok(JInt(0))
    ELSE IF IsPyNumber(resp) THEN Ok(PyInt(resp))
    ELSE IF resp.t = "list" THEN SumarVotos(resp.items, JInt(0))
    ELSE IF resp.t = "dict" THEN
        IF "resultados" \in DOMAIN resp.d THEN
            LET it == PyIter(resp.d["resultados"]) IN
            IF it.ok THEN SumarVotos(it.val, JInt(0)) ELSE it
        ELSE IF "votos" \in DOMAIN resp.d THEN
            LET v == DictGet(resp.d, "votos", JInt(0)) IN
            IF IsPyNumber(v) THEN Ok(PyAdd(JInt(0), v)) ELSE Raise("TypeError")
        ELSE Ok(JInt(0))
    ELSE Ok(JInt(0))

(***************************************************************************)
(* The Record Builder: lines 237-365 of procesar_mesa_task, as functions   *)
(* of the station payload and of what the five data calls returned.        *)
(***************************************************************************)

\* "a or b" on Python values.
PyOr(a, b) == IF Truthy(a) THEN a ELSE b

\* id_jrv = mesa.get("numero") or mesa.get("jrv")
id_jrv_de(mesa) ==
    PyOr(DictGet(mesa.d, "numero", JNull), DictGet(mesa.d, "jrv", JNull))

\* '"candidatos" in data_res' for whatever data_res is: a key test on a dict,
\* a membership test on a list, a substring test on a str (the only str of
\* the model that holds the word is the word itself), TypeError on a number.
TieneCandidatos(data_res) ==
    CASE data_res.t = "dict" -> Ok("candidatos" \in DOMAIN data_res.d)
      [] data_res.t = "list" ->
            Ok(\E i \in 1..Len(data_res.items) : data_res.items[i] = JStr("candidatos"))
      [] data_res.t = "str" -> Ok(data_res.s = "candidatos")
      [] OTHER -> Raise("TypeError")

\* One pass of "for cand in data_res['candidatos']": the entry appended to
\* lista_candidatos (the two image downloads it schedules are named by
\* imgs_locales and by the two link fields).
EntradaCandidato(cand) ==
    LET p_id == DictGet(cand.d, "parpo_id", JStr("0"))
        c_cod == DictGet(cand.d, "cddto_codigo", JStr("000"))
    IN [ id_partido_string |-> p_id,
         id_partido_int |-> DictGet(cand.d, "parpo_id_int", JInt(0)),
         id_candidato |-> c_cod,
         nombre_candidato |-> DictGet(cand.d, "cddto_nombres", JNull),
         nombre_partido |-> DictGet(cand.d, "parpo_nombre", JNull),
         votos |-> DictGet(cand.d, "votos", JInt(0)),
         color_hex |-> DictGet(cand.d, "parpo_color", JNull),
         imgs_locales |-> [partido |-> <<"Partido", p_id>>,
                           candidato |-> <<"Cand", p_id, c_cod>>] ]

RECURSIVE RecorrerCandidatos(_, _)
RecorrerCandidatos(cands, lista) ==
    IF cands = <<>> THEN Ok(lista)
    ELSE IF Head(cands).t # "dict" THEN Raise("AttributeError")
    ELSE RecorrerCandidatos(Tail(cands), Append(lista, EntradaCandidato(Head(cands))))

\* Lines 266-304: lista_candidatos, or the exception the loop raises.
lista_candidatos_de(data_res) ==
    LET tiene == TieneCandidatos(data_res) IN
    IF ~tiene.ok THEN tiene
    ELSE IF ~tiene.val THEN Ok(<<>>)
    ELSE IF data_res.t # "dict" THEN Raise("TypeError")
    ELSE LET it == PyIter(data_res.d["candidatos"]) IN
         IF it.ok THEN RecorrerCandidatos(it.val, <<>>) ELSE it

\* sum(c["votos"] for c in lista_candidatos): 0 + v1 + v2 + ...
RECURSIVE SumaPython(_, _)
SumaPython(lista, total) ==
    IF lista = <<>> THEN Ok(total)
    ELSE IF ~IsPyNumber(Head(lista).votos) THEN Raise("TypeError")
    ELSE SumaPython(Tail(lista), PyAdd(total, Head(lista).votos))

\* a == 1 in Python.
EsUno(v) == IsPyNumber(v) /\ X10(v) = 10

\* A plausible slip: the "data_res or {}" default is left out.
extraccion_sin_defecto(data_res0, data_blancos, data_nulos) ==
    LET vb == extraer_votos(data_blancos)
        vn == extraer_votos(data_nulos)
        lc == lista_candidatos_de(data_res0)
    IN IF ~vb.ok THEN vb
       ELSE IF ~vn.ok THEN vn
       ELSE IF ~lc.ok THEN lc
       ELSE Ok([votos_blancos |-> vb.val, votos_nulos |-> vn.val,
                lista_candidatos |-> lc.val])

\* Lines 237-304: the defaults, the two extractions and the candidate loop.
\* The first exception raised, in program order, ends the handling.
extraccion_de(data_res0, data_blancos, data_nulos) ==
    LET data_res == PyOr(data_res0, JDict(EmptyDict))
        vb == extraer_votos(data_blancos)
        vn == extraer_votos(data_nulos)
        lc == lista_candidatos_de(data_res)
    IN IF ~vb.ok THEN vb
       ELSE IF ~vn.ok THEN vn
       ELSE IF ~lc.ok THEN lc
       ELSE Ok([votos_blancos |-> vb.val, votos_nulos |-> vn.val,
                lista_candidatos |-> lc.val])

\* A plausible slip: the ballot-box total leaves the null votes out.
totales_sin_nulos(lista_candidatos, votos_blancos, votos_nulos) ==
    LET tv == SumaPython(lista_candidatos, JInt(0)) IN
    IF ~tv.ok THEN tv
    ELSE Ok([total_validos |-> tv.val, total_urna |-> PyAdd(tv.val, votos_blancos)])

\* Lines 310-311: total_validos and total_urna.
totales_de(lista_candidatos, votos_blancos, votos_nulos) ==
    LET tv == SumaPython(lista_candidatos, JInt(0)) IN
    IF ~tv.ok THEN tv
    ELSE Ok([total_validos |-> tv.val,
             total_urna |-> PyAdd(PyAdd(tv.val, votos_blancos), votos_nulos)])

\* Lines 322-365: json_final.  extraccion_local (datetime.now()) is modelled
\* by the stamp of the handling that built the record.
json_final_de(id, mesa, ids_geo, noms_geo, data_val0, data_suf0, data_res0, ext, tot, pdf_local, stamp) ==
    LET data_val == PyOr(data_val0, JDict(EmptyDict))
        data_suf == PyOr(data_suf0, JDict(EmptyDict))
        data_res == PyOr(data_res0, JDict(EmptyDict))
        url_pdf == DictGet(mesa.d, "nombre_archivo", JNull)
    IN IF data_res.t # "dict" \/ data_val.t # "dict" \/ data_suf.t # "dict"
       THEN Raise("AttributeError")
       ELSE IF Truthy(url_pdf) /\ url_pdf.t # "str" THEN Raise("AttributeError")
       ELSE Ok([ id_jrv |-> id,
                 timestamps |-> [extraccion_local |-> stamp,
                                 corte_servidor |-> DictGet(data_res.d, "fecha_corte", JNull)],
                 geografia |-> [cod_depto |-> ids_geo.depto, nom_depto |-> noms_geo.depto,
                                cod_muni |-> ids_geo.muni, nom_muni |-> noms_geo.muni,
                                cod_zona |-> ids_geo.zona, nom_zona |-> noms_geo.zona,
                                cod_centro |-> ids_geo.centro, nom_centro |-> noms_geo.centro],
                 auditoria |->
                     [estado_global |->
                          IF EsUno(DictGet(data_val.d, "publicadas", JNull))
                          THEN "Publicada" ELSE "No Publicada",
                      es_correcta |-> DictGet(data_val.d, "correctas", JInt(0)),
                      tiene_inconsistencias |-> DictGet(data_val.d, "inconsistencias", JInt(0)),
                      en_verificacion |-> DictGet(data_val.d, "verificacion", JInt(0)),
                      pend_verif_visual |->
                          DictGet(data_val.d, "pendientesVerificacionVisual", JInt(0)),
                      en_espera |-> DictGet(data_val.d, "espera", JInt(0))],
                 estadisticas |->
                     [censo_mesa |-> DictGet(data_suf.d, "sufragantes", JInt(0)),
                      total_firmas |-> DictGet(data_suf.d, "cantidadDeFirmas", JInt(0)),
                      participacion_pct |-> DictGet(data_suf.d, "participacion", JInt(0)),
                      votos_validos_calc |-> tot.total_validos,
                      votos_blancos |-> ext.votos_blancos,
                      votos_nulos |-> ext.votos_nulos,
                      total_votos_calculados |-> tot.total_urna],
                 detalle_resultados |-> ext.lista_candidatos,
                 documentos |-> [pdf_descargado |-> pdf_local # JNull,
                                 pdf_nombre_local |-> pdf_local,
                                 url_tokenizada |-> url_pdf] ])

(***************************************************************************)
(* The Asset Store (descargar_asset, lines 162-180).  The folder is a set  *)
(* of entries, one per file that exists: estado is "vacio" for a file of   *)
(* size 0 and "lleno" for a non-empty one; escritos counts the downloads   *)
(* that fetched and wrote the file.  File names are tuples of the parts    *)
(* the f-strings put together.                                             *)
(***************************************************************************)
f_partido(cand) == <<"Partido", DictGet(cand.d, "parpo_id", JStr("0"))>>
f_candidato(cand) ==
    <<"Cand", DictGet(cand.d, "parpo_id", JStr("0")), DictGet(cand.d, "cddto_codigo", JStr("000"))>>
pdf_name(id) == <<"HND_2025_JRV", JInt(id)>>

\* The value of pdf_local when it names a file.
JFile(name) == [t |-> "file", f |-> name]

\* os.path.exists and os.path.getsize on the folder d.
EstadoEn(d, file) ==
    IF \E e \in d : e.file = file THEN (CHOOSE e \in d : e.file = file).estado ELSE "no"
EscritosEn(d, file) ==
    IF \E e \in d : e.file = file THEN (CHOOSE e \in d : e.file = file).escritos ELSE 0
Poner(d, file, estado, escritos) ==
    {e \in d : e.file # file} \cup {[file |-> file, estado |-> estado, escritos |-> escritos]}

\* A plausible slip: the existence check is left out.
descargar_asset_inicio_sin_omitir(d, url, file) ==
    IF ~Truthy(url) THEN "None" ELSE "pend"

\* Lines 164-170: what descargar_asset does before any request: it returns
\* None without a URL, the file name when the file exists with non-zero
\* size, and otherwise goes on to the request ("pend").
descargar_asset_inicio(d, url, file) ==
    IF ~Truthy(url) THEN "None"
    ELSE IF EstadoEn(d, file) = "lleno" THEN "file"
    ELSE "pend"

\* What the request and the write may come to: status 200 and the content
\* written, another status, an exception before the file is opened
\* (transport, timeout, read, open), an exception of the write after
\* open(mode="wb") created or truncated the file.
ResultadosDescarga == {"200", "status", "excepcion", "escritura"}

\* A plausible slip: no "except Exception" around the request and the write.
descargar_asset_fin_sin_except(d, file, o) ==
    CASE o = "200" -> [disk |-> Poner(d, file, "lleno", EscritosEn(d, file) + 1), ret |-> "file"]
      [] o = "status" -> [disk |-> d, ret |-> "None"]
      [] o = "excepcion" -> [disk |-> d, ret |-> "raise"]
      [] o = "escritura" -> [disk |-> Poner(d, file, "vacio", EscritosEn(d, file)), ret |-> "raise"]

\* Lines 171-180: the folder and the value returned after the request.
descargar_asset_fin(d, file, o) ==
    CASE o = "200" -> [disk |-> Poner(d, file, "lleno", EscritosEn(d, file) + 1), ret |-> "file"]
      [] o = "status" -> [disk |-> d, ret |-> "None"]
      [] o = "excepcion" -> [disk |-> d, ret |-> "None"]
      [] o = "escritura" -> [disk |-> Poner(d, file, "vacio", EscritosEn(d, file)), ret |-> "None"]

\* One call of descargar_asset as the caller starts it on folder d: what it
\* returns at once or "pend", with, for the history, what the folder held
\* and (o) what the request came to.
Llamada(d, url, file) ==
    [file |-> file, url |-> url, habia |-> EstadoEn(d, file),
     ret |-> descargar_asset_inicio(d, url, file), o |-> ""]

\* Lines 276-288: the two downloads each candidate schedules.
RECURSIVE TareasImagenes(_, _)
TareasImagenes(cands, d) ==
    IF cands = <<>> THEN <<>>
    ELSE << Llamada(d, DictGet(Head(cands).d, "parpo_link_logo", JNull), f_partido(Head(cands))),
            Llamada(d, DictGet(Head(cands).d, "cddto_link_logo", JNull), f_candidato(Head(cands))) >>
         \o TareasImagenes(Tail(cands), d)

\* tasks_imagenes once the candidate loop has ended without an exception.
tasks_imagenes_de(data_res0, d) ==
    LET data_res == PyOr(data_res0, JDict(EmptyDict)) IN
    IF data_res.t = "dict" /\ "candidatos" \in DOMAIN data_res.d
    THEN TareasImagenes(PyIter(data_res.d["candidatos"]).val, d)
    ELSE <<>>

\* Lines 313-320: url_pdf, and pdf_local after the download on folder d.
url_pdf_de(mesa) == DictGet(mesa.d, "nombre_archivo", JNull)
pdf_local_de(mesa, id, d) ==
    IF Truthy(url_pdf_de(mesa)) /\ EstadoEn(d, pdf_name(id)) # "no"
    THEN JFile(pdf_name(id)) ELSE JNull

(***************************************************************************)
(* Bounded universe of special-votes responses.                            *)
(***************************************************************************)
MaxItems == 2

\* Line items of a collection: objects with votos, and malformed ones.
ItemsPosibles ==
    { JDict([votos |-> JInt(3)]), JDict([votos |-> JInt(4)]),
      JDict([votos |-> JFloat(35)]), JDict([otro |-> JInt(9)]),
      JDict([votos |-> JNull]), JInt(1) }

RECURSIVE SeqsUpTo(_, _)
SeqsUpTo(S, n) ==
    IF n = 0 THEN {<<>>}
    ELSE LET shorter == SeqsUpTo(S, n - 1) IN
         shorter \cup {Append(s, x) : s \in {q \in shorter : Len(q) = n - 1}, x \in S}

ListasPosibles == SeqsUpTo(ItemsPosibles, MaxItems)

EscalaresPosibles ==
    { JNull, JInt(0), JInt(7), JInt(-2), JFloat(75), JFloat(-75), JFloat(70),
      JBool(TRUE), JStr(""), JStr("7") }

RespuestasVotos ==
    EscalaresPosibles
    \cup {JList(l) : l \in ListasPosibles}
    \cup {JDict([resultados |-> JList(l)]) : l \in ListasPosibles}
    \cup {JDict([resultados |-> x]) : x \in EscalaresPosibles \cup {JDict(EmptyDict)}}
    \cup {JDict([votos |-> x]) : x \in EscalaresPosibles}
    \cup {JDict([resultados |-> JList(l), votos |-> JInt(7)]) :
             l \in {q \in ListasPosibles : Len(q) <= 1}}
    \cup {JDict(EmptyDict), JDict([otro |-> JInt(9)])}

(***************************************************************************)
(* Bounds of the pipeline.  The program runs 4 workers on a queue of 1000  *)
(* slots (lines 35 and 409); the model scales both down so that a full     *)
(* queue and idle workers are reached.                                     *)
(***************************************************************************)
NUM_WORKERS == 2
maxsize == 2

Workers == 1..NUM_WORKERS

VARIABLES
    ex_pc,      \* ExtractSpec: "call" before extraer_votos runs, "ret" after
    resp,       \* ExtractSpec: the decoded special-votes response
    extraido,   \* ExtractSpec: what extraer_votos returned or raised
    store,      \* rows of table scraped_data
    queue,      \* asyncio.Queue: the items put and not yet got (FIFO)
    unfinished, \* asyncio.Queue._unfinished_tasks
    wk,         \* per worker task: position, item in hand, locals
    cancel,     \* per worker task: cancellation requested by main
    nav,        \* main: position of the traversal
    hist,       \* per item accepted by the queue: what was done with it
    disk,       \* the asset folders: the files that exist
    ft,         \* FetchSpec: one call of fetch
    fnr         \* RobustSpec: one call of fetch_navigation_robust

exVars == <<ex_pc, resp, extraido, ft, fnr>>
pipeVars == <<store, queue, unfinished, wk, cancel, nav, hist, disk>>

vars == <<ex_pc, resp, extraido, store, queue, unfinished, wk, cancel, nav, hist, disk, ft, fnr>>

(***************************************************************************)
(* The remote dataset: the hierarchy the discovery endpoints serve.  It is *)
(* the same in every run.  Department 01 has one center with station 1,    *)
(* which names a scanned document.  Department 02 has two municipalities:  *)
(* the first holds station 2, the second lists station 1 again (under the  *)
(* jrv key) and one entry without any station number.                      *)
(***************************************************************************)
NumDeptos == 2

deptos_list ==
    << [id |-> "01", nombre |-> "Atlantida"], [id |-> "02", nombre |-> "Colon"],
       [id |-> "03", nombre |-> "Comayagua"], [id |-> "04", nombre |-> "Copan"],
       [id |-> "05", nombre |-> "Cortes"], [id |-> "06", nombre |-> "Choluteca"],
       [id |-> "07", nombre |-> "El_Paraiso"], [id |-> "08", nombre |-> "Francisco_Morazan"],
       [id |-> "09", nombre |-> "Gracias_a_Dios"], [id |-> "10", nombre |-> "Intibuca"],
       [id |-> "11", nombre |-> "Islas_de_la_Bahia"], [id |-> "12", nombre |-> "La_Paz"],
       [id |-> "13", nombre |-> "Lempira"], [id |-> "14", nombre |-> "Ocotepeque"],
       [id |-> "15", nombre |-> "Olancho"], [id |-> "16", nombre |-> "Santa_Barbara"],
       [id |-> "17", nombre |-> "Valle"], [id |-> "18", nombre |-> "Yoro"],
       [id |-> "20", nombre |-> "Voto_Exterior"] >>

DeptosRecorridos ==
    [i \in 1..NumDeptos |-> JDict([id |-> JStr(deptos_list[i].id),
                                   nombre |-> JStr(deptos_list[i].nombre)])]

\* What the discovery endpoint below a path of node ids serves.
Remoto(ruta) ==
    CASE ruta = <<"01">> -> <<JDict([id_municipio |-> JStr("001"), municipio |-> JStr("La_Ceiba")])>>
      [] ruta = <<"01", "001">> -> <<JDict([cod_zona |-> JStr("01"), zona |-> JStr("URBANA")])>>
      [] ruta = <<"01", "001", "01">> ->
            <<JDict([id_puesto |-> JStr("0001"), puesto |-> JStr("Escuela_A")])>>
      [] ruta = <<"01", "001", "01", "0001">> ->
            << JDict([numero |-> JInt(1), nombre_archivo |-> JStr("acta1?token")]) >>
      [] ruta = <<"02">> ->
            << JDict([id_municipio |-> JStr("004"), municipio |-> JStr("Sonaguera")]),
               JDict([id_municipio |-> JStr("002"), municipio |-> JStr("Trujillo")]) >>
      [] ruta = <<"02", "004">> -> <<JDict([cod_zona |-> JStr("01"), zona |-> JStr("URBANA")])>>
      [] ruta = <<"02", "004", "01">> ->
            <<JDict([id_puesto |-> JStr("0004"), puesto |-> JStr("Escuela_D")])>>
      [] ruta = <<"02", "004", "01", "0004">> -> << JDict([numero |-> JInt(2)]) >>
      [] ruta = <<"02", "002">> -> <<JDict([id_zona |-> JStr("02")])>>
      [] ruta = <<"02", "002", "02">> ->
            <<JDict([id_puesto |-> JStr("0002"), puesto |-> JStr("Escuela_B")])>>
      [] ruta = <<"02", "002", "02", "0002">> ->
            << JDict([jrv |-> JInt(1)]), JDict([otro |-> JInt(0)]) >>
      [] OTHER -> <<>>

\* The station numbers the remote dataset holds.
IdsRemotos == {1, 2}

(***************************************************************************)
(* The persistence store (table scraped_data, id_jrv PRIMARY KEY).         *)
(***************************************************************************)

\* verify_db_existance: SELECT 1 FROM scraped_data WHERE id_jrv = ?
verify_db_existance(id_jrv) == \E r \in store : r.id_jrv = id_jrv

\* For the history: whether the store holds the station at this moment.
EnStore(id_jrv) == IF \E r \in store : r.id_jrv = id_jrv THEN "si" ELSE "no"

\* The row of one INSERT OR REPLACE (the json column holds the value whose
\* serialization the program stores).
fila_de(json_final) ==
    [ id_jrv |-> json_final.id_jrv,
      depto_nom |-> json_final.geografia.nom_depto,
      muni_nom |-> json_final.geografia.nom_muni,
      centro_nom |-> json_final.geografia.nom_centro,
      estado_acta |-> json_final.auditoria.estado_global,
      votos_validos_calculados |-> json_final.estadisticas.votos_validos_calc,
      json |-> json_final ]

\* A plausible slip: a plain INSERT into a table without a key.
upsert_sin_clave(tabla, fila) == tabla \cup {fila}

\* INSERT OR REPLACE: the row replaces any row with the same primary key.
upsert(tabla, fila) == {r \in tabla : r.id_jrv # fila.id_jrv} \cup {fila}

(***************************************************************************)
(* Worker tasks (worker, lines 392-405) and the handling of one item       *)
(* (procesar_mesa_task, lines 182-390).  One action per stretch of code    *)
(* between two suspension points.                                          *)
(***************************************************************************)
NoItem == [seq |-> 0]

\* The five data calls of an item (lines 215-235) and, for each, whether
\* its fetch has not been started ("no"), is running ("vuelo") or has
\* returned ("vuelto").
LlamadasMain == {"val", "suf", "res"}
LlamadasDatos == LlamadasMain \cup {"blancos", "nulos"}
PlanNuevo == [c \in LlamadasDatos |-> "no"]

WorkerIdle ==
    [ pc |-> "get", item |-> NoItem, data_val |-> JNull, data_suf |-> JNull,
      data_res |-> JNull, data_blancos |-> JNull, data_nulos |-> JNull,
      ext |-> JNull, tot |-> JNull, json_final |-> JNull, desc |-> <<>>, plan |-> PlanNuevo ]

\* No row: what the history of an item holds for the row it committed while
\* it has committed none, or once a later commit for the same station has
\* taken its place.
NoFila == [id_jrv |-> 0]

HistNuevo(nav_existia) ==
    [ nav_existia |-> nav_existia, by |-> {}, n |-> 0, existia |-> "?",
      llamadas |-> 0, upserts |-> 0, fin |-> "", fila |-> NoFila ]

\* queue.task_done(): ValueError when no put item is unfinished.
task_done_raises == unfinished <= 0

\* A plausible slip: the worker's loop ends after one item.
TerminarItem_y_sale(w, h, fin) ==
    /\ hist' = [h EXCEPT ![wk[w].item.seq].fin = fin]
    /\ wk' = [wk EXCEPT ![w] = [WorkerIdle EXCEPT !.pc = "salio"]]
    /\ unfinished' = unfinished - 1

\* The worker's "finally: queue.task_done()" followed by the next turn of
\* its loop, after the handling of its item ended with outcome fin.
TerminarItem(w, h, fin) ==
    /\ hist' = [h EXCEPT ![wk[w].item.seq].fin = fin]
    /\ IF task_done_raises
       THEN /\ wk' = [wk EXCEPT ![w] = [WorkerIdle EXCEPT !.pc = "ValueError"]]
            /\ UNCHANGED unfinished
       ELSE /\ wk' = [wk EXCEPT ![w] = WorkerIdle]
            /\ unfinished' = unfinished - 1

\* A plausible slip: the worker reads the head of the queue without removing it.
WorkerGet_sin_quitar(w) ==
    /\ wk[w].pc = "get" /\ ~cancel[w]
    /\ queue # <<>>
    /\ wk' = [wk EXCEPT ![w].pc = "procesar", ![w].item = Head(queue)]
    /\ hist' = [hist EXCEPT ![Head(queue).seq].by = @ \cup {w}]
    /\ UNCHANGED <<store, queue, unfinished, cancel, nav, disk, exVars>>

\* item = await queue.get(), with no cancellation pending.
WorkerGet(w) ==
    /\ wk[w].pc = "get" /\ ~cancel[w]
    /\ queue # <<>>
    /\ wk' = [wk EXCEPT ![w].pc = "procesar", ![w].item = Head(queue)]
    /\ queue' = Tail(queue)
    /\ hist' = [hist EXCEPT ![Head(queue).seq].by = @ \cup {w}]
    /\ UNCHANGED <<store, unfinished, cancel, nav, disk, exVars>>

\* A plausible slip: the worker does not look the station up in the store.
existe_para_worker_sin_filtro(id) == FALSE

\* Line 190: what the worker's existence check answers.
existe_para_worker(id) == verify_db_existance(id)

\* Lines 398-399 and 184-191: the pause, the call of procesar_mesa_task, the
\* station number and the existence check.
WorkerProcesar(w) ==
    LET it == wk[w].item
        id_jrv == id_jrv_de(it.mesa)
        h == [hist EXCEPT ![it.seq].n = @ + 1]
    IN /\ wk[w].pc = "procesar" /\ ~cancel[w]
       /\ IF ~Truthy(id_jrv)
          THEN TerminarItem(w, h, "sin_id")
          ELSE IF existe_para_worker(id_jrv.n)
          THEN TerminarItem(w, [h EXCEPT ![it.seq].existia = EnStore(id_jrv.n)], "omitido")
          ELSE /\ wk' = [wk EXCEPT ![w].pc = "main"]
               /\ hist' = [h EXCEPT ![it.seq].existia = EnStore(id_jrv.n)]
               /\ UNCHANGED unfinished
       /\ UNCHANGED <<store, queue, cancel, nav, disk, exVars>>

\* Lines 194-203: the payload of the data calls of an item whose station
\* id is id.
payload_base(id, ids_geo) ==
    [ mesa |-> id, depto |-> ids_geo.depto, mcpio |-> ids_geo.muni,
      zona |-> ids_geo.zona, pesto |-> ids_geo.centro, comuna |-> "00" ]

\* Lines 215-224: the three main POSTs, gathered.  F names what each call
\* may return.
WorkerMain(w, F) ==
    /\ wk[w].pc = "main" /\ ~cancel[w]
    /\ \E dv \in F.val, ds \in F.suf, dr \in F.res :
          wk' = [wk EXCEPT ![w].pc = "blancos", ![w].data_val = dv,
                           ![w].data_suf = ds, ![w].data_res = dr]
    /\ hist' = [hist EXCEPT ![wk[w].item.seq].llamadas = @ + 3]
    /\ UNCHANGED <<store, queue, unfinished, cancel, nav, disk, exVars>>

\* Lines 227-232: the pause and the blank-votes POST.
WorkerBlancos(w, F) ==
    /\ wk[w].pc = "blancos" /\ ~cancel[w]
    /\ \E r \in F.blancos : wk' = [wk EXCEPT ![w].pc = "nulos", ![w].data_blancos = r]
    /\ hist' = [hist EXCEPT ![wk[w].item.seq].llamadas = @ + 1]
    /\ UNCHANGED <<store, queue, unfinished, cancel, nav, disk, exVars>>

\* Line 235: the null-votes POST.
WorkerNulos(w, F) ==
    /\ wk[w].pc = "nulos" /\ ~cancel[w]
    /\ \E r \in F.nulos : wk' = [wk EXCEPT ![w].pc = "armar", ![w].data_nulos = r]
    /\ hist' = [hist EXCEPT ![wk[w].item.seq].llamadas = @ + 1]
    /\ UNCHANGED <<store, queue, unfinished, cancel, nav, disk, exVars>>

\* Lines 322-365 for the locals of worker w (ext: lista_candidatos,
\* votos_blancos and votos_nulos; tot: the totals) and the pdf_local of
\* lines 314-320: json_final, or the exception.
armar(w, ext, tot, pdf_local) ==
    LET l == wk[w]
        it == l.item
    IN json_final_de(id_jrv_de(it.mesa).n, it.mesa, it.ids_geo, it.noms_geo,
                     l.data_val, l.data_suf, l.data_res, ext, tot, pdf_local, w)

\* Lines 319-365 on folder d: pdf_local and json_final; the record goes to
\* the upsert, or an exception leaves procesar_mesa_task and is logged by
\* the worker's "except Exception" (line 403).
Ensamblar(w, d, desc, ext, tot) ==
    LET it == wk[w].item
        a == armar(w, ext, tot, pdf_local_de(it.mesa, id_jrv_de(it.mesa).n, d))
    IN IF a.ok
       THEN /\ wk' = [wk EXCEPT ![w].pc = "upsert", ![w].json_final = a.val, ![w].desc = desc,
                                ![w].ext = ext, ![w].tot = tot]
            /\ UNCHANGED <<unfinished, hist>>
       ELSE TerminarItem(w, hist, "worker_error")

\* Lines 310-318: the totals of the locals ext, then the call of
\* descargar_asset for the scanned document, up to its request.
Cierre(w, ext) ==
    LET l == wk[w]
        it == l.item
        tot == totales_de(ext.lista_candidatos, ext.votos_blancos, ext.votos_nulos)
        call == Llamada(disk, url_pdf_de(it.mesa), pdf_name(id_jrv_de(it.mesa).n))
    IN /\ UNCHANGED disk
       /\ IF ~tot.ok THEN TerminarItem(w, hist, "worker_error")
          ELSE IF ~Truthy(url_pdf_de(it.mesa)) THEN Ensamblar(w, disk, l.desc, ext, tot.val)
          ELSE IF call.ret = "pend"
          THEN /\ wk' = [wk EXCEPT ![w].pc = "pdf", ![w].desc = Append(@, call),
                                   ![w].ext = ext, ![w].tot = tot.val]
               /\ UNCHANGED <<unfinished, hist>>
          ELSE Ensamblar(w, disk, Append(l.desc, call), ext, tot.val)

\* Lines 237-307: the defaults, the extractions and the candidate loop, up
\* to "await asyncio.gather(*tasks_imagenes)"; every download runs up to its
\* request before any of them gets an answer.
WorkerArmar(w) ==
    LET l == wk[w]
        ext == extraccion_de(l.data_res, l.data_blancos, l.data_nulos)
        tasks == tasks_imagenes_de(l.data_res, disk)
    IN /\ wk[w].pc = "armar" /\ ~cancel[w]
       /\ IF ~ext.ok THEN TerminarItem(w, hist, "worker_error") /\ UNCHANGED disk
          ELSE IF tasks # <<>>
          THEN /\ wk' = [wk EXCEPT ![w].pc = "imgs", ![w].desc = tasks, ![w].ext = ext.val]
               /\ UNCHANGED <<unfinished, hist, disk>>
          ELSE Cierre(w, ext.val)
       /\ UNCHANGED <<store, queue, cancel, nav, exVars>>

\* A plausible slip: the downloads are scheduled but their gather is not
\* awaited.
Pendientes_sin_esperar(w) == {}

\* The downloads of tasks_imagenes that have not returned.
Pendientes(w) == {k \in 1..Len(wk[w].desc) : wk[w].desc[k].ret = "pend"}

\* Line 307: one of the gathered downloads gets its answer; once none is
\* outstanding the gather returns and the handling goes on.
WorkerImgs(w) ==
    /\ wk[w].pc = "imgs" /\ ~cancel[w]
    /\ IF Pendientes(w) # {}
       THEN /\ \E k \in Pendientes(w), o \in ResultadosDescarga :
                  LET r == descargar_asset_fin(disk, wk[w].desc[k].file, o) IN
                  /\ disk' = r.disk
                  /\ wk' = [wk EXCEPT ![w].desc[k].ret = r.ret, ![w].desc[k].o = o]
            /\ UNCHANGED <<unfinished, hist>>
       ELSE Cierre(w, wk[w].ext)
    /\ UNCHANGED <<store, queue, cancel, nav, exVars>>

\* Lines 318-365: the download of the scanned document gets its answer.
WorkerPdf(w) ==
    /\ wk[w].pc = "pdf" /\ ~cancel[w]
    /\ \E o \in ResultadosDescarga :
          LET k == Len(wk[w].desc)
              r == descargar_asset_fin(disk, wk[w].desc[k].file, o)
          IN /\ disk' = r.disk
             /\ Ensamblar(w, r.disk, [wk[w].desc EXCEPT ![k].ret = r.ret, ![k].o = o],
                          wk[w].ext, wk[w].tot)
    /\ UNCHANGED <<store, queue, cancel, nav, exVars>>

\* A plausible slip: no "except Exception" around the upsert, whose exception
\* then reaches the worker.
WorkerUpsert_sin_except(w) ==
    LET h == [hist EXCEPT ![wk[w].item.seq].upserts = @ + 1] IN
    /\ wk[w].pc = "upsert" /\ ~cancel[w]
    /\ \/ /\ store' = upsert(store, fila_de(wk[w].json_final))
          /\ TerminarItem(w, [h EXCEPT ![wk[w].item.seq].fila = fila_de(wk[w].json_final)],
                          "persistido")
       \/ /\ UNCHANGED store
          /\ TerminarItem(w, h, "worker_error")
    /\ UNCHANGED <<queue, cancel, nav, disk, exVars>>

\* A plausible slip: an upsert that raised is tried again.
WorkerUpsert_reintenta(w) ==
    LET h == [hist EXCEPT ![wk[w].item.seq].upserts = @ + 1] IN
    /\ wk[w].pc = "upsert" /\ ~cancel[w]
    /\ \/ /\ store' = upsert(store, fila_de(wk[w].json_final))
          /\ TerminarItem(w, [h EXCEPT ![wk[w].item.seq].fila = fila_de(wk[w].json_final)],
                          "persistido")
       \/ /\ UNCHANGED store
          /\ IF h[wk[w].item.seq].upserts >= 2 THEN TerminarItem(w, h, "error_db")
             ELSE hist' = h /\ UNCHANGED <<wk, unfinished>>
    /\ UNCHANGED <<queue, cancel, nav, disk, exVars>>

\* Lines 367-390: the INSERT OR REPLACE and its commit, or the exception
\* they raise, which "except Exception" logs; then the worker's
\* "finally: task_done()".  The history keeps the row committed.
WorkerUpsert(w) ==
    LET h == [hist EXCEPT ![wk[w].item.seq].upserts = @ + 1]
        fila == fila_de(wk[w].json_final)
        hc == [i \in DOMAIN h |->
                 IF i = wk[w].item.seq THEN [h[i] EXCEPT !.fila = fila]
                 ELSE IF h[i].fila.id_jrv = fila.id_jrv THEN [h[i] EXCEPT !.fila = NoFila]
                 ELSE h[i]]
    IN
    /\ wk[w].pc = "upsert" /\ ~cancel[w]
    /\ \/ /\ store' = upsert(store, fila)
          /\ TerminarItem(w, hc, "persistido")
       \/ /\ UNCHANGED store
          /\ TerminarItem(w, h, "error_db")
    /\ UNCHANGED <<queue, cancel, nav, disk, exVars>>

\* Lines 400-405: CancelledError delivered at the worker's suspension point:
\* "break", then "finally: queue.task_done()".
WorkerCancelled(w) ==
    /\ cancel[w] /\ wk[w].pc \notin {"salio", "ValueError"}
    /\ IF task_done_raises
       THEN /\ wk' = [wk EXCEPT ![w] = [WorkerIdle EXCEPT !.pc = "ValueError"]]
            /\ UNCHANGED unfinished
       ELSE /\ wk' = [wk EXCEPT ![w] = [WorkerIdle EXCEPT !.pc = "salio"]]
            /\ unfinished' = unfinished - 1
    /\ hist' = IF wk[w].item.seq = 0 THEN hist
               ELSE [hist EXCEPT ![wk[w].item.seq].fin = "cancelado"]
    /\ UNCHANGED <<store, queue, cancel, nav, disk, exVars>>

(***************************************************************************)
(* The orchestrator and Navigator (main, lines 407-515).  nav.pila is the  *)
(* stack of the five nested loops: frame k holds what is left to iterate   *)
(* at level k (departments, municipalities, zones, centers, stations), its *)
(* head being the node the loop is at.                                     *)
(***************************************************************************)
MAPA_ZONAS_DEFAULT(id_zona) ==
    IF id_zona = JStr("01") THEN JStr("URBANA")
    ELSE IF id_zona = JStr("02") THEN JStr("RURAL")
    ELSE JStr("Desconocida")

\* Lines 456-457, 470-473, 481-482: the id and the name the loop at level k
\* reads from its node.
IdNodo(k, nodo) ==
    CASE k = 1 -> nodo.d["id"]
      [] k = 2 -> nodo.d["id_municipio"]
      [] k = 3 -> PyOr(DictGet(nodo.d, "cod_zona", JNull), DictGet(nodo.d, "id_zona", JNull))
      [] k = 4 -> nodo.d["id_puesto"]

NomNodo(k, nodo) ==
    CASE k = 1 -> nodo.d["nombre"]
      [] k = 2 -> nodo.d["municipio"]
      [] k = 3 -> PyOr(DictGet(nodo.d, "zona", JNull), MAPA_ZONAS_DEFAULT(IdNodo(3, nodo)))
      [] k = 4 -> nodo.d["puesto"]

\* The ids in the URL of the discovery request below the heads of pila.
Ruta(pila) == [k \in 1..Len(pila) |-> IdNodo(k, Head(pila[k])).s]

\* Leaving every loop that has nothing left to iterate and moving the
\* enclosing loop to its next node.
RECURSIVE Avanzar(_)
Avanzar(pila) ==
    IF Len(pila) > 1 /\ pila[Len(pila)] = <<>>
    THEN LET k == Len(pila) - 1 IN
         Avanzar([SubSeq(pila, 1, k) EXCEPT ![k] = Tail(@)])
    ELSE pila

\* Line 512: the traversal is over when the department loop is exhausted.
PcTras(pila) == IF pila = << <<>> >> THEN "join" ELSE "walk"

\* A plausible slip: a branch whose discovery failed for good ends the
\* whole traversal.
NavFetch_falla_termina ==
    /\ nav.pc = "walk" /\ Len(nav.pila) < 5
    /\ \E ok \in BOOLEAN :
          LET ruta == Ruta(nav.pila)
              pila == IF ok THEN Avanzar(Append(nav.pila, Remoto(ruta))) ELSE << <<>> >>
          IN nav' = [nav EXCEPT !.pila = pila, !.pc = PcTras(pila),
                                !.visto = @ \cup {[ruta |-> ruta, ok |-> ok]}]
    /\ UNCHANGED <<store, queue, unfinished, wk, cancel, hist, disk, exVars>>

\* Lines 450, 460, 476, 485: fetch_navigation_robust for the node the
\* innermost loop is at: the collection served (ok), or [] after the final
\* failure.  nav.visto keeps which requests were made and how they ended.
NavFetch ==
    /\ nav.pc = "walk" /\ Len(nav.pila) < 5
    /\ \E ok \in BOOLEAN :
          LET ruta == Ruta(nav.pila)
              pila == Avanzar(Append(nav.pila, IF ok THEN Remoto(ruta) ELSE <<>>))
          IN nav' = [nav EXCEPT !.pila = pila, !.pc = PcTras(pila),
                                !.visto = @ \cup {[ruta |-> ruta, ok |-> ok]}]
    /\ UNCHANGED <<store, queue, unfinished, wk, cancel, hist, disk, exVars>>

\* A plausible slip: the names of the zone and of the center (lines 506-507)
\* taken from each other's loop variable.
ItemDe_nombres_cruzados(pila, seq) ==
    [ mesa |-> Head(pila[5]),
      ids_geo |-> [depto |-> IdNodo(1, Head(pila[1])), muni |-> IdNodo(2, Head(pila[2])),
                   zona |-> IdNodo(3, Head(pila[3])), centro |-> IdNodo(4, Head(pila[4]))],
      noms_geo |-> [depto |-> NomNodo(1, Head(pila[1])), muni |-> NomNodo(2, Head(pila[2])),
                    zona |-> NomNodo(4, Head(pila[4])), centro |-> NomNodo(3, Head(pila[3]))],
      seq |-> seq ]

\* Lines 497-508: the work item for the station at the head of the stack.
ItemDe(pila, seq) ==
    [ mesa |-> Head(pila[5]),
      ids_geo |-> [depto |-> IdNodo(1, Head(pila[1])), muni |-> IdNodo(2, Head(pila[2])),
                   zona |-> IdNodo(3, Head(pila[3])), centro |-> IdNodo(4, Head(pila[4]))],
      noms_geo |-> [depto |-> NomNodo(1, Head(pila[1])), muni |-> NomNodo(2, Head(pila[2])),
                    zona |-> NomNodo(3, Head(pila[3])), centro |-> NomNodo(4, Head(pila[4]))],
      seq |-> seq ]

\* For the history: the station the innermost loop is at, what the store
\* held for it when it was looked up, and the number of its item (0: none).
Vista(existia, seq) ==
    [ruta |-> Ruta(SubSeq(nav.pila, 1, 4)), mesa |-> Head(nav.pila[5]),
     existia |-> existia, seq |-> seq]

\* queue.put accepting the item for the station at the head of the stack.
Encolar(nav_existia) ==
    LET pila == Avanzar([nav.pila EXCEPT ![5] = Tail(@)]) IN
    /\ queue' = Append(queue, ItemDe(nav.pila, Len(hist) + 1))
    /\ unfinished' = unfinished + 1
    /\ hist' = Append(hist, HistNuevo(nav_existia))
    /\ nav' = [nav EXCEPT !.pila = pila, !.pc = PcTras(pila), !.existia = "?",
                          !.mesas = @ \cup {Vista(nav_existia, Len(hist) + 1)}]

\* A plausible slip: put_nowait semantics without the capacity check.
cola_llena_nunca == FALSE

\* asyncio.Queue.full() (maxsize > 0).
cola_llena == Len(queue) >= maxsize

\* A plausible slip: the pre-filter test negated.
existe_para_nav_negado(id) == ~verify_db_existance(id)

\* Lines 492-494: what the Navigator's existence check answers.
existe_para_nav(id) == verify_db_existance(id)

\* Lines 489-510 for one station: the existence pre-filter, then queue.put,
\* which suspends when the queue is full.
NavCheck ==
    LET mesa == Head(nav.pila[5])
        id_jrv == id_jrv_de(mesa)
        existia == IF ~Truthy(id_jrv) THEN "sin_id" ELSE EnStore(id_jrv.n)
    IN /\ nav.pc = "walk" /\ Len(nav.pila) = 5
       /\ IF Truthy(id_jrv) /\ existe_para_nav(id_jrv.n)
          THEN LET pila == Avanzar([nav.pila EXCEPT ![5] = Tail(@)]) IN
               /\ nav' = [nav EXCEPT !.pila = pila, !.pc = PcTras(pila),
                                     !.mesas = @ \cup {Vista(existia, 0)}]
               /\ UNCHANGED <<queue, unfinished, hist>>
          ELSE IF cola_llena
          THEN /\ nav' = [nav EXCEPT !.pc = "put", !.existia = existia]
               /\ UNCHANGED <<queue, unfinished, hist>>
          ELSE Encolar(existia)
       /\ UNCHANGED <<store, wk, cancel, disk, exVars>>

\* Line 510: the suspended queue.put resumes once the queue has room.
NavPut ==
    /\ nav.pc = "put"
    /\ ~cola_llena
    /\ Encolar(nav.existia)
    /\ UNCHANGED <<store, wk, cancel, disk, exVars>>

\* A plausible slip: waiting for an empty queue instead of queue.join().
join_retorna_cola_vacia == queue = <<>>

\* queue.join() returns when no put item is unfinished.
join_retorna == unfinished = 0

\* Lines 513-515: await queue.join(), then w.cancel() for every worker.
NavJoin ==
    /\ nav.pc = "join"
    /\ join_retorna
    /\ cancel' = [w \in Workers |-> TRUE]
    /\ nav' = [nav EXCEPT !.pc = "fin"]
    /\ UNCHANGED <<store, queue, unfinished, wk, hist, disk, exVars>>

WorkersTerminados == \A w \in Workers : wk[w].pc \in {"salio", "ValueError"}

\* Lines 518-548: asyncio.run(scraper.main()) returns once main has ended
\* and every task it cancelled is done, or raises what main raised; the
\* summary is then written with status_ejecucion.
Resumen ==
    /\ nav.pc \in {"fin", "abort"} /\ nav.status = ""
    /\ WorkersTerminados
    /\ nav' = [nav EXCEPT !.status = IF nav.pc = "fin" THEN "SUCCESS" ELSE "ERROR"]
    /\ UNCHANGED <<store, queue, unfinished, wk, cancel, hist, disk, exVars>>

(***************************************************************************)
(* Discovery payloads that are not a collection of well-formed nodes, and  *)
(* store reads that fail: main has no handler for the exceptions they      *)
(* raise, so they leave main and reach the handler of line 530.            *)
(***************************************************************************)

\* int(id_jrv) (line 493) succeeds: a number, or a str of digits (of the
\* strs of the model only "7" is one).
IntOk(v) == IsPyNumber(v) \/ (v.t = "str" /\ v.s = "7")

\* The reads of lines 456-457, 470-473, 481-482 and 490-494 on node nodo of
\* a listing at level k raise nothing.
NodoValido(k, nodo) ==
    CASE k = 2 -> nodo.t = "dict" /\ {"id_municipio", "municipio"} \subseteq DOMAIN nodo.d
      [] k = 3 -> nodo.t = "dict"
      [] k = 4 -> nodo.t = "dict" /\ {"id_puesto", "puesto"} \subseteq DOMAIN nodo.d
      [] k = 5 -> nodo.t = "dict" /\ (Truthy(id_jrv_de(nodo)) => IntOk(id_jrv_de(nodo)))

\* "for nodo in payload" at level k raises in its first turn, or before it.
ListadoRompe(k, payload) ==
    IF ~PyIter(payload).ok THEN TRUE
    ELSE PyIter(payload).val # <<>> /\ ~NodoValido(k, Head(PyIter(payload).val))

PayloadsMalformados ==
    { JInt(5), JDict([error |-> JStr("x")]), JList(<<JStr("x")>>),
      JList(<<JDict([otro |-> JInt(0)])>>), JList(<<JDict([numero |-> JStr("A1")])>>) }

\* Lines 450-490: a discovery request returns a payload on which the loop
\* raises (KeyError, TypeError, AttributeError, ValueError).
NavMalformado ==
    /\ nav.pc = "walk" /\ Len(nav.pila) < 5
    /\ \E payload \in PayloadsMalformados : ListadoRompe(Len(nav.pila) + 1, payload)
    /\ nav' = [nav EXCEPT !.pc = "error"]
    /\ UNCHANGED <<store, queue, unfinished, wk, cancel, hist, disk, exVars>>

\* Lines 492-494: the store read of verify_db_existance raises in main.
NavStoreError ==
    /\ nav.pc = "walk" /\ Len(nav.pila) = 5
    /\ Truthy(id_jrv_de(Head(nav.pila[5])))
    /\ nav' = [nav EXCEPT !.pc = "error"]
    /\ UNCHANGED <<store, queue, unfinished, wk, cancel, hist, disk, exVars>>

\* Line 190: the store read of verify_db_existance raises in a worker; the
\* worker's "except Exception" logs it.
WorkerStoreError(w) ==
    LET it == wk[w].item
        h == [hist EXCEPT ![it.seq].n = @ + 1]
    IN /\ wk[w].pc = "procesar" /\ ~cancel[w]
       /\ Truthy(id_jrv_de(it.mesa))
       /\ TerminarItem(w, h, "worker_error")
       /\ UNCHANGED <<store, queue, cancel, nav, disk, exVars>>

\* asyncio.run after main raised: it cancels every task still running
\* before it re-raises.
MainCancelAll ==
    /\ nav.pc = "error"
    /\ cancel' = [w \in Workers |-> TRUE]
    /\ nav' = [nav EXCEPT !.pc = "abort"]
    /\ UNCHANGED <<store, queue, unfinished, wk, hist, disk, exVars>>

(***************************************************************************)
(* Initial states.  The store starts as an earlier run may have left it:   *)
(* for each remote station either no row, or the row of a best-effort      *)
(* record written by an earlier run (stamp 0).                             *)
(***************************************************************************)
FetchIdle ==
    [ pc |-> "idle", method |-> "GET", retries |-> 0, attempt |-> 0, enviados |-> 0,
      result |-> JNull, log |-> <<>>, ultimo |-> [kind |-> "none"] ]

RobustIdle ==
    [ pc |-> "idle", attempt |-> 0, enviados |-> 0, datos |-> <<>>, result |-> JNull,
      log |-> <<>> ]

ExIdle ==
    /\ ex_pc = "idle" /\ resp = JNull /\ extraido = Ok(JInt(0))
    /\ ft = FetchIdle /\ fnr = RobustIdle

GeoCentroA ==
    [ ids |-> [depto |-> JStr("01"), muni |-> JStr("001"), zona |-> JStr("01"),
               centro |-> JStr("0001")],
      noms |-> [depto |-> JStr("Atlantida"), muni |-> JStr("La_Ceiba"),
                zona |-> JStr("URBANA"), centro |-> JStr("Escuela_A")] ]

GeoCentroD ==
    [ ids |-> [depto |-> JStr("02"), muni |-> JStr("004"), zona |-> JStr("01"),
               centro |-> JStr("0004")],
      noms |-> [depto |-> JStr("Colon"), muni |-> JStr("Sonaguera"),
                zona |-> JStr("URBANA"), centro |-> JStr("Escuela_D")] ]

\* Where the remote dataset first lists station id.
GeoPrevia(id) == IF id = 2 THEN GeoCentroD ELSE GeoCentroA

SinVotos == [votos_blancos |-> JInt(0), votos_nulos |-> JInt(0), lista_candidatos |-> <<>>]

FilaPrevia(id) ==
    fila_de(json_final_de(id, JDict([numero |-> JInt(id)]), GeoPrevia(id).ids, GeoPrevia(id).noms,
                          JNull, JNull, JNull, SinVotos,
                          totales_de(<<>>, JInt(0), JInt(0)).val, JNull, 0).val)

StoresPrevios == SUBSET {FilaPrevia(id) : id \in IdsRemotos}

NavInicio ==
    [pc |-> "walk", pila |-> <<DeptosRecorridos>>, existia |-> "?", visto |-> {}, mesas |-> {},
     status |-> ""]

PipeIdle ==
    /\ store = {} /\ queue = <<>> /\ unfinished = 0
    /\ wk = [w \in Workers |-> WorkerIdle]
    /\ cancel = [w \in Workers |-> FALSE]
    /\ nav = [NavInicio EXCEPT !.pc = "fin", !.pila = << <<>> >>]
    /\ hist = <<>>
    /\ disk = {}

Init ==
    /\ ExIdle
    /\ store \in StoresPrevios
    /\ queue = <<>> /\ unfinished = 0
    /\ wk = [w \in Workers |-> WorkerIdle]
    /\ cancel = [w \in Workers |-> FALSE]
    /\ nav = NavInicio
    /\ hist = <<>>
    /\ disk = {}

\* What the data calls return in a full run: no audit, turnout or blank-votes
\* data, a result with two candidates (without image links), and for the
\* null votes no data or a collection of bare numbers.
ResultadoBueno ==
    JDict([candidatos |->
              JList(<< JDict([parpo_id |-> JStr("P1"), cddto_codigo |-> JStr("001"),
                              votos |-> JInt(3)]),
                       JDict([parpo_id |-> JStr("P2"), cddto_codigo |-> JStr("002"),
                              votos |-> JInt(4)]) >>),
           fecha_corte |-> JStr("corte")])

FuentesRun ==
    [ val |-> {JNull}, suf |-> {JNull}, res |-> {ResultadoBueno},
      blancos |-> {JNull}, nulos |-> {JNull, JList(<<JInt(1)>>)} ]

Next ==
    \/ NavFetch
    \/ NavCheck
    \/ NavPut
    \/ NavJoin
    \/ Resumen
    \/ \E w \in Workers : WorkerGet(w)
    \/ \E w \in Workers : WorkerProcesar(w)
    \/ \E w \in Workers : WorkerMain(w, FuentesRun)
    \/ \E w \in Workers : WorkerBlancos(w, FuentesRun)
    \/ \E w \in Workers : WorkerNulos(w, FuentesRun)
    \/ \E w \in Workers : WorkerArmar(w)
    \/ \E w \in Workers : WorkerImgs(w)
    \/ \E w \in Workers : WorkerPdf(w)
    \/ \E w \in Workers : WorkerUpsert(w)
    \/ \E w \in Workers : WorkerCancelled(w)

Spec == Init /\ [][Next]_vars

\* LiveSpec: Spec under fair scheduling with every network call and store
\* operation returning: main and each worker task, whenever its next step
\* stays possible, eventually takes it.
PasoNav == NavFetch \/ NavCheck \/ NavPut \/ NavJoin \/ Resumen

PasoWorker(w) ==
    \/ WorkerGet(w) \/ WorkerProcesar(w) \/ WorkerMain(w, FuentesRun)
    \/ WorkerBlancos(w, FuentesRun) \/ WorkerNulos(w, FuentesRun) \/ WorkerArmar(w)
    \/ WorkerImgs(w) \/ WorkerPdf(w) \/ WorkerUpsert(w) \/ WorkerCancelled(w)

LiveSpec == Spec /\ WF_vars(PasoNav) /\ \A w \in Workers : WF_vars(PasoWorker(w))

\* CrawlSpec: the runs of Spec, and those in which a discovery payload is
\* malformed or a store read fails.
CrawlNext ==
    \/ Next
    \/ NavMalformado
    \/ NavStoreError
    \/ MainCancelAll
    \/ \E w \in Workers : WorkerStoreError(w)

CrawlSpec == Init /\ [][CrawlNext]_vars

(***************************************************************************)
(* RecordSpec: worker 1 has just dequeued one work item, the traversal is  *)
(* over, and each of the five data calls may return any value of a bounded *)
(* universe of well-formed, absent and malformed responses.                *)
(***************************************************************************)
Candidato(votos) ==
    JDict([parpo_id |-> JStr("P1"), cddto_codigo |-> JStr("001"), votos |-> votos])

EspecialesRecord ==
    { JNull, JInt(7), JFloat(75),
      JList(<<JDict([votos |-> JInt(3)]), JDict([votos |-> JInt(4)])>>),
      JList(<<JInt(1)>>),
      JDict([resultados |-> JList(<<JDict([votos |-> JInt(3)])>>)]),
      JDict([resultados |-> JNull]),
      JDict([votos |-> JInt(7)]),
      JDict([votos |-> JNull]) }

FuentesRecord ==
    [ val |-> { JNull, JDict([publicadas |-> JInt(1)]), JList(<<JInt(1)>>) },
      suf |-> { JNull, JDict([sufragantes |-> JInt(9)]), JInt(5) },
      res |-> { JNull, JDict(EmptyDict), ResultadoBueno,
                JDict([candidatos |-> JList(<<Candidato(JFloat(35)), Candidato(JInt(4))>>)]),
                JDict([candidatos |-> JList(<<Candidato(JNull)>>)]),
                JDict([candidatos |-> JList(<<JInt(1)>>)]),
                JDict([candidatos |-> JNull]),
                JList(<<JInt(1)>>), JInt(5), JStr("candidatos") },
      blancos |-> EspecialesRecord, nulos |-> EspecialesRecord ]

MesasRecord ==
    { JDict([numero |-> JInt(1), nombre_archivo |-> JStr("acta1?token")]),
      JDict([jrv |-> JInt(2)]),
      JDict([otro |-> JInt(0)]) }

RecordInit ==
    /\ ExIdle
    /\ store \in StoresPrevios
    /\ queue = <<>> /\ unfinished = 1
    /\ \E mesa \in MesasRecord :
          wk = [w \in Workers |->
                  IF w = 1
                  THEN [WorkerIdle EXCEPT !.pc = "procesar",
                           !.item = [mesa |-> mesa, ids_geo |-> GeoCentroA.ids,
                                     noms_geo |-> GeoCentroA.noms, seq |-> 1]]
                  ELSE WorkerIdle]
    /\ cancel = [w \in Workers |-> FALSE]
    /\ nav = [NavInicio EXCEPT !.pc = "join", !.pila = << <<>> >>]
    /\ hist = <<[HistNuevo("no") EXCEPT !.by = {1}]>>
    /\ disk = {}

RecordNext ==
    \/ \E w \in Workers : WorkerProcesar(w)
    \/ \E w \in Workers : WorkerMain(w, FuentesRecord)
    \/ \E w \in Workers : WorkerBlancos(w, FuentesRecord)
    \/ \E w \in Workers : WorkerNulos(w, FuentesRecord)
    \/ \E w \in Workers : WorkerArmar(w)
    \/ \E w \in Workers : WorkerImgs(w)
    \/ \E w \in Workers : WorkerPdf(w)
    \/ \E w \in Workers : WorkerUpsert(w)

RecordSpec == RecordInit /\ [][RecordNext]_vars

(***************************************************************************)
(* AssetSpec: both workers have received the data of their items, station  *)
(* 1 (which names a scanned document) and station 2; the result of each    *)
(* lists two candidates of the same party, with a link to the party logo   *)
(* and none to the candidate picture.  The folders start as an earlier     *)
(* process may have left them.                                             *)
(***************************************************************************)
CandidatoConLogo(c_cod, votos) ==
    JDict([parpo_id |-> JStr("P1"), cddto_codigo |-> JStr(c_cod), votos |-> JInt(votos),
           parpo_link_logo |-> JStr("logoP1")])

ResultadoConLogos ==
    JDict([candidatos |-> JList(<<CandidatoConLogo("001", 3), CandidatoConLogo("002", 4)>>)])

ArchivosPrevios ==
    { [file |-> f_partido(CandidatoConLogo("001", 3)), estado |-> "lleno", escritos |-> 0],
      [file |-> f_partido(CandidatoConLogo("001", 3)), estado |-> "vacio", escritos |-> 0],
      [file |-> f_candidato(CandidatoConLogo("001", 3)), estado |-> "lleno", escritos |-> 0],
      [file |-> pdf_name(1), estado |-> "lleno", escritos |-> 0],
      [file |-> pdf_name(1), estado |-> "vacio", escritos |-> 0] }

DiscosPrevios == {d \in SUBSET ArchivosPrevios : \A a, b \in d : a.file = b.file => a = b}

ItemAsset(id) ==
    [ mesa |-> IF id = 1 THEN JDict([numero |-> JInt(1), nombre_archivo |-> JStr("acta1?token")])
                         ELSE JDict([numero |-> JInt(id)]),
      ids_geo |-> GeoPrevia(id).ids, noms_geo |-> GeoPrevia(id).noms, seq |-> id ]

AssetInit ==
    /\ ExIdle
    /\ store = {} /\ queue = <<>> /\ unfinished = 2
    /\ wk = [w \in Workers |->
               IF w <= 2
               THEN [WorkerIdle EXCEPT !.pc = "armar", !.item = ItemAsset(w),
                                       !.data_res = ResultadoConLogos,
                                       !.data_blancos = JInt(2),
                                       !.data_nulos = JList(<<JDict([votos |-> JInt(1)])>>)]
               ELSE WorkerIdle]
    /\ cancel = [w \in Workers |-> FALSE]
    /\ nav = [NavInicio EXCEPT !.pc = "join", !.pila = << <<>> >>]
    /\ hist = [i \in 1..2 |-> [HistNuevo("no") EXCEPT !.by = {i}, !.n = 1, !.existia = "no",
                                                        !.llamadas = 5]]
    /\ disk \in DiscosPrevios

AssetNext ==
    \/ \E w \in Workers : WorkerArmar(w)
    \/ \E w \in Workers : WorkerImgs(w)
    \/ \E w \in Workers : WorkerPdf(w)
    \/ \E w \in Workers : WorkerUpsert(w)

AssetSpec == AssetInit /\ [][AssetNext]_vars

(***************************************************************************)
(* PlanSpec: the data calls of lines 215-235 one by one, for two workers   *)
(* that have passed the existence check for their items.  WorkerMain,      *)
(* WorkerBlancos and WorkerNulos above are these steps taken together.     *)
(***************************************************************************)
FuentesPlan ==
    [ val |-> {JNull, JDict([publicadas |-> JInt(1)])},
      suf |-> {JNull, JDict([sufragantes |-> JInt(9)])},
      res |-> {JNull, ResultadoBueno},
      blancos |-> {JNull, JInt(2)},
      nulos |-> {JNull, JList(<<JDict([votos |-> JInt(1)])>>)} ]

\* The local the value returned by call c is bound to.
ConDato(l, c, v) ==
    CASE c = "val" -> [l EXCEPT !.data_val = v]
      [] c = "suf" -> [l EXCEPT !.data_suf = v]
      [] c = "res" -> [l EXCEPT !.data_res = v]
      [] c = "blancos" -> [l EXCEPT !.data_blancos = v]
      [] c = "nulos" -> [l EXCEPT !.data_nulos = v]

\* A plausible slip: the blank-votes call is gathered with the main calls.
GrupoMain_con_blancos == LlamadasMain \cup {"blancos"}

\* Lines 215-219: the calls asyncio.gather is given.
GrupoMain == LlamadasMain

\* Lines 220-222: asyncio.gather wraps the calls of the group in tasks,
\* which all start before any of them can be answered.
PlanMainInicia(w) ==
    /\ wk[w].pc = "main" /\ ~cancel[w]
    /\ \A c \in LlamadasDatos : wk[w].plan[c] = "no"
    /\ wk' = [wk EXCEPT ![w].plan = [c \in LlamadasDatos |->
                                        IF c \in GrupoMain THEN "vuelo" ELSE "no"]]
    /\ hist' = [hist EXCEPT ![wk[w].item.seq].llamadas = @ + Cardinality(GrupoMain)]
    /\ UNCHANGED <<store, queue, unfinished, cancel, nav, disk, exVars>>

\* One of the gathered calls returns; the worker stays in gather.
PlanMainRetorna(w, F) ==
    /\ wk[w].pc = "main" /\ ~cancel[w]
    /\ \E c \in GrupoMain : \E v \in F[c] :
          /\ wk[w].plan[c] = "vuelo"
          /\ wk' = [wk EXCEPT ![w] = ConDato([@ EXCEPT !.plan[c] = "vuelto"], c, v)]
    /\ UNCHANGED <<store, queue, unfinished, cancel, nav, hist, disk, exVars>>

\* Lines 223-227: gather returns once all its calls have, and the worker
\* sleeps 0.1 s.
PlanPausa(w) ==
    /\ wk[w].pc = "main" /\ ~cancel[w]
    /\ \A c \in GrupoMain : wk[w].plan[c] = "vuelto"
    /\ wk' = [wk EXCEPT ![w].pc = "pausa"]
    /\ UNCHANGED <<store, queue, unfinished, cancel, nav, hist, disk, exVars>>

\* Lines 229-232: after the pause, the blank-votes call is awaited.
PlanBlancosInicia(w) ==
    /\ wk[w].pc = "pausa" /\ ~cancel[w]
    /\ wk' = [wk EXCEPT ![w].pc = "blancos",
                        ![w].plan["blancos"] = IF @ = "no" THEN "vuelo" ELSE @]
    /\ hist' = [hist EXCEPT ![wk[w].item.seq].llamadas =
                                IF wk[w].plan["blancos"] = "no" THEN @ + 1 ELSE @]
    /\ UNCHANGED <<store, queue, unfinished, cancel, nav, disk, exVars>>

\* Lines 232-235: the blank-votes call returns and the null-votes call is
\* awaited.
PlanBlancosRetorna(w, F) ==
    /\ wk[w].pc = "blancos" /\ ~cancel[w]
    /\ wk[w].plan["blancos"] = "vuelo"
    /\ \E v \in F["blancos"] :
          wk' = [wk EXCEPT ![w] = ConDato([@ EXCEPT !.pc = "nulos", !.plan["blancos"] = "vuelto",
                                                    !.plan["nulos"] = "vuelo"], "blancos", v)]
    /\ hist' = [hist EXCEPT ![wk[w].item.seq].llamadas = @ + 1]
    /\ UNCHANGED <<store, queue, unfinished, cancel, nav, disk, exVars>>

\* Line 235: the null-votes call returns.
PlanNulosRetorna(w, F) ==
    /\ wk[w].pc = "nulos" /\ ~cancel[w]
    /\ wk[w].plan["nulos"] = "vuelo"
    /\ \E v \in F["nulos"] :
          wk' = [wk EXCEPT ![w] = ConDato([@ EXCEPT !.pc = "armar", !.plan["nulos"] = "vuelto"],
                                          "nulos", v)]
    /\ UNCHANGED <<store, queue, unfinished, cancel, nav, hist, disk, exVars>>

PlanInit ==
    /\ ExIdle
    /\ store = {} /\ queue = <<>> /\ unfinished = 2
    /\ wk = [w \in Workers |->
               IF w <= 2 THEN [WorkerIdle EXCEPT !.pc = "main", !.item = ItemAsset(w)]
               ELSE WorkerIdle]
    /\ cancel = [w \in Workers |-> FALSE]
    /\ nav = [NavInicio EXCEPT !.pc = "join", !.pila = << <<>> >>]
    /\ hist = [i \in 1..2 |-> [HistNuevo("no") EXCEPT !.by = {i}, !.n = 1, !.existia = "no"]]
    /\ disk = {}

PlanNext ==
    \/ \E w \in Workers : PlanMainInicia(w)
    \/ \E w \in Workers : PlanMainRetorna(w, FuentesPlan)
    \/ \E w \in Workers : PlanPausa(w)
    \/ \E w \in Workers : PlanBlancosInicia(w)
    \/ \E w \in Workers : PlanBlancosRetorna(w, FuentesPlan)
    \/ \E w \in Workers : PlanNulosRetorna(w, FuentesPlan)

PlanSpec == PlanInit /\ [][PlanNext]_vars

(***************************************************************************)
(* The Fetch Client: one call of fetch (lines 111-142).  Each turn of the  *)
(* retry loop sends one request; what comes back is an HTTP status (with a *)
(* body that parses or not, for 200) or a transport error or timeout.      *)
(***************************************************************************)
RetriesDefault == 3
RetriesNavegacion == 1

Cuerpos == {JDict([votos |-> JInt(7)]), JList(<<>>), JNull}

RespuestasHTTP ==
    {[kind |-> "status", status |-> 200, parses |-> TRUE, body |-> b] : b \in Cuerpos}
    \cup {[kind |-> "status", status |-> 200, parses |-> FALSE, body |-> JNull]}
    \cup {[kind |-> "status", status |-> st, parses |-> FALSE, body |-> JNull] :
             st \in {204, 404, 403, 500}}
    \cup {[kind |-> "exception"], [kind |-> "timeout"]}

\* A plausible slip: POST treats 404 like GET does.
clasificar_post_como_get(method, status) ==
    IF status = 200 THEN "payload"
    ELSE IF status \in {404, 204} THEN "absent"
    ELSE "retry"

\* Lines 122-127 and 132-138: what fetch does with a status.
clasificar(method, status) ==
    IF method = "GET"
    THEN (IF status = 200 THEN "payload"
          ELSE IF status \in {404, 204} THEN "absent"
          ELSE "retry")
    ELSE (IF status = 200 THEN "payload"
          ELSE IF status = 204 THEN "absent"
          ELSE "retry")

\* The loop moves to its next turn, or ends with "return None" (line 142).
SiguienteIntento(f) ==
    IF f.attempt + 1 < f.retries
    THEN [f EXCEPT !.attempt = @ + 1]
    ELSE [f EXCEPT !.attempt = @ + 1, !.pc = "done", !.result = JNull]

\* A plausible slip: no "except Exception" around the request, so a transport
\* error, a timeout or an unparsable body leaves fetch as an exception.
fetch_sin_except(f, r) ==
    LET g == [f EXCEPT !.enviados = @ + 1, !.ultimo = r] IN
    IF r.kind \in {"exception", "timeout"}
       \/ (clasificar(f.method, r.status) = "payload" /\ ~r.parses)
    THEN [g EXCEPT !.pc = "raised"]
    ELSE IF clasificar(f.method, r.status) = "payload"
    THEN [g EXCEPT !.pc = "done", !.result = r.body]
    ELSE IF clasificar(f.method, r.status) = "absent"
    THEN [g EXCEPT !.pc = "done", !.result = JNull]
    ELSE SiguienteIntento([g EXCEPT !.log = Append(@, [nivel |-> "warning", method |-> f.method,
                                                       status |-> r.status])])

\* One turn of "for attempt in range(retries)" with what came back.
fetch(f, r) ==
    LET g == [f EXCEPT !.enviados = @ + 1, !.ultimo = r] IN
    IF r.kind \in {"exception", "timeout"}
       \/ (clasificar(f.method, r.status) = "payload" /\ ~r.parses)
    THEN SiguienteIntento([g EXCEPT !.log = Append(@, [nivel |-> "error", method |-> f.method,
                                                       attempt |-> f.attempt + 1])])
    ELSE IF clasificar(f.method, r.status) = "payload"
    THEN [g EXCEPT !.pc = "done", !.result = r.body]
    ELSE IF clasificar(f.method, r.status) = "absent"
    THEN [g EXCEPT !.pc = "done", !.result = JNull]
    ELSE SiguienteIntento([g EXCEPT !.log = Append(@, [nivel |-> "warning", method |-> f.method,
                                                       status |-> r.status])])

FetchInit ==
    /\ ex_pc = "idle" /\ resp = JNull /\ extraido = Ok(JInt(0)) /\ fnr = RobustIdle
    /\ PipeIdle
    /\ \E m \in {"GET", "POST"}, n \in {RetriesDefault, RetriesNavegacion} :
          ft = [FetchIdle EXCEPT !.pc = "attempt", !.method = m, !.retries = n]

FetchAttempt ==
    /\ ft.pc = "attempt"
    /\ \E r \in RespuestasHTTP : ft' = fetch(ft, r)
    /\ UNCHANGED <<ex_pc, resp, extraido, fnr, pipeVars>>

FetchNext == FetchAttempt

FetchSpec == FetchInit /\ [][FetchNext]_vars

\* Every request ends within its timeout (timeout=15, line 120), so a call
\* that can make a turn does make it.
FetchLive == FetchSpec /\ WF_vars(FetchAttempt)

\* C11: a call of fetch with bound r sends at most r requests; whatever the
\* attempts yield it never ends with an exception and it does end, with a
\* parsed payload or absent; every failed attempt is logged, and after r
\* failed attempts the result is absent.
C11_FetchBoundedNoRaise ==
    /\ [](/\ ft.pc \in {"attempt", "done"}
          /\ ft.enviados <= ft.retries
          /\ ft.pc = "attempt" => Len(ft.log) = ft.enviados
          /\ ft.pc = "done" =>
                \/ ft.result = JNull
                \/ /\ ft.ultimo.kind = "status" /\ ft.ultimo.status = 200
                   /\ ft.ultimo.parses /\ ft.result = ft.ultimo.body
          /\ Len(ft.log) = ft.retries =>
                (ft.pc = "done" /\ ft.result = JNull /\ ft.enviados = ft.retries))
    /\ <>(ft.pc = "done")

\* C11 witness: a call with bound 3 whose three attempts failed with a
\* transport error, a status 500 and an unparsable body.
C11_Witness ==
    /\ ft.pc = "done" /\ ft.retries = RetriesDefault /\ ft.enviados = RetriesDefault
    /\ ft.log[1].nivel = "error" /\ ft.log[2].nivel = "warning" /\ ft.log[3].nivel = "error"
    /\ ft.ultimo.kind = "status" /\ ft.ultimo.status = 200 /\ ~ft.ultimo.parses
    /\ ft.result = JNull

(***************************************************************************)
(* The navigation variant: one call of fetch_navigation_robust (lines      *)
(* 144-160).  Each turn calls fetch("GET", retries=1), which sends one     *)
(* request and returns its payload or absent; fetch raises nothing, so the *)
(* "except Exception" of line 156 has nothing to catch.                    *)
(***************************************************************************)
max_retries == 5

\* fetch(session, "GET", url, retries=1) for one response r.
fetch_get_una_vez(r) ==
    fetch([FetchIdle EXCEPT !.pc = "attempt", !.method = "GET", !.retries = RetriesNavegacion], r)

\* A plausible slip: the final failure returns None instead of [].
fetch_navigation_robust_sin_lista(n, r) ==
    LET f == fetch_get_una_vez(r)
        g == [n EXCEPT !.enviados = @ + f.enviados, !.datos = Append(@, f.result),
                       !.log = @ \o f.log]
        h == [g EXCEPT !.attempt = @ + 1,
                       !.log = Append(@, [nivel |-> "warning", attempt |-> n.attempt + 1])]
    IN IF f.result # JNull THEN [g EXCEPT !.pc = "done", !.result = f.result]
       ELSE IF h.attempt < max_retries THEN h
       ELSE [h EXCEPT !.pc = "done", !.result = JNull,
                      !.log = Append(@, [nivel |-> "critical"])]

\* One turn of "for attempt in range(max_retries)" with what came back, and
\* lines 159-160 after the last turn.
fetch_navigation_robust(n, r) ==
    LET f == fetch_get_una_vez(r)
        g == [n EXCEPT !.enviados = @ + f.enviados, !.datos = Append(@, f.result),
                       !.log = @ \o f.log]
        h == [g EXCEPT !.attempt = @ + 1,
                       !.log = Append(@, [nivel |-> "warning", attempt |-> n.attempt + 1])]
    IN IF f.result # JNull THEN [g EXCEPT !.pc = "done", !.result = f.result]
       ELSE IF h.attempt < max_retries THEN h
       ELSE [h EXCEPT !.pc = "done", !.result = JList(<<>>),
                      !.log = Append(@, [nivel |-> "critical"])]

RobustInit ==
    /\ ex_pc = "idle" /\ resp = JNull /\ extraido = Ok(JInt(0)) /\ ft = FetchIdle
    /\ PipeIdle
    /\ fnr = [RobustIdle EXCEPT !.pc = "attempt"]

RobustAttempt ==
    /\ fnr.pc = "attempt"
    /\ \E r \in RespuestasHTTP : fnr' = fetch_navigation_robust(fnr, r)
    /\ UNCHANGED <<ex_pc, resp, extraido, ft, pipeVars>>

RobustNext == RobustAttempt

RobustSpec == RobustInit /\ [][RobustNext]_vars

TodosAusentes(datos) == \A k \in 1..Len(datos) : datos[k] = JNull
LogCritico == fnr.log # <<>> /\ fnr.log[Len(fnr.log)].nivel = "critical"

\* C12: a call of fetch_navigation_robust sends at most 5 requests and never
\* ends with an exception; it goes on only while every attempt yielded
\* absent; it returns the first payload that is not absent; and when all 5
\* attempts yielded absent it logs the critical branch-skip message and
\* returns an empty collection.
C12_RobustNavigation ==
    /\ fnr.pc \in {"attempt", "done"}
    /\ fnr.enviados <= max_retries /\ Len(fnr.datos) = fnr.enviados
    /\ fnr.pc = "attempt" => (TodosAusentes(fnr.datos) /\ fnr.enviados < max_retries)
    /\ fnr.pc = "done" =>
          \/ /\ fnr.datos[Len(fnr.datos)] # JNull
             /\ TodosAusentes(SubSeq(fnr.datos, 1, Len(fnr.datos) - 1))
             /\ fnr.result = fnr.datos[Len(fnr.datos)]
             /\ ~LogCritico
          \/ /\ Len(fnr.datos) = max_retries /\ TodosAusentes(fnr.datos)
             /\ fnr.result = JList(<<>>)
             /\ LogCritico

\* C12 witness: five attempts yielded absent (among them a 404 and a
\* timeout) and the call returned the empty collection.
C12_Witness ==
    /\ fnr.pc = "done" /\ fnr.enviados = max_retries /\ fnr.result = JList(<<>>)
    /\ LogCritico /\ Len(fnr.log) = 8

\* What the claims call "absent at once" and "logged, next attempt".
RetornoInmediato(valor) == ft.pc = "done" /\ ft.result = valor /\ ft.enviados = ft.attempt + 1
Reintenta ==
    /\ ft.log # <<>>
    /\ ft.log[Len(ft.log)] = [nivel |-> "warning", method |-> ft.method, status |-> ft.ultimo.status]
    /\ IF ft.attempt < ft.retries THEN ft.pc = "attempt"
       ELSE ft.pc = "done" /\ ft.result = JNull

\* C10 as claimed: for GET and for POST, status 200 returns the parsed
\* payload, status 404 or 204 returns absent at once, and any other status
\* is logged and followed by the next attempt.
C10_AsClaimed ==
    ft.ultimo.kind = "status" =>
        /\ (ft.ultimo.status = 200 /\ ft.ultimo.parses) => RetornoInmediato(ft.ultimo.body)
        /\ ft.ultimo.status \in {404, 204} => RetornoInmediato(JNull)
        /\ ft.ultimo.status \notin {200, 404, 204} => Reintenta

\* C10 as amended: status 200 returns the parsed payload; GET returns absent
\* at once on 404 or 204 and POST on 204 only; any other status, which for
\* POST includes 404, is logged and followed by the next attempt while one
\* is left, and by the return of absent after the last one.
C10_FetchClassification ==
    ft.ultimo.kind = "status" =>
        /\ (ft.ultimo.status = 200 /\ ft.ultimo.parses) => RetornoInmediato(ft.ultimo.body)
        /\ (ft.ultimo.status = 204 \/ (ft.ultimo.status = 404 /\ ft.method = "GET")) =>
              RetornoInmediato(JNull)
        /\ (ft.ultimo.status \notin {200, 404, 204}
              \/ (ft.ultimo.status = 404 /\ ft.method = "POST")) => Reintenta

\* C10 witness: a POST answered 404 was logged and is being retried, and
\* (in another call) a GET answered 404 returned absent at once.
C10_Witness ==
    /\ ft.method = "POST" /\ ft.ultimo.kind = "status" /\ ft.ultimo.status = 404
    /\ ft.pc = "attempt" /\ ft.attempt = 1 /\ Len(ft.log) = 1

(***************************************************************************)
(* Claims about the Record Builder (RecordSpec).                           *)
(***************************************************************************)

\* Sum, in tenths, of the votos of the first n candidates of a record.
RECURSIVE SumaDetalleX10(_, _)
SumaDetalleX10(detalle, n) ==
    IF n = 0 THEN 0 ELSE SumaDetalleX10(detalle, n - 1) + X10(detalle[n].votos)

\* C1: in every row of the store, total_votos_calculados is the sum of the
\* candidates' votos plus votos_blancos plus votos_nulos, and
\* votos_validos_calc is the sum of the candidates' votos.
C1_TotalInvariant ==
    \A r \in store :
        LET e == r.json.estadisticas
            validos == SumaDetalleX10(r.json.detalle_resultados, Len(r.json.detalle_resultados))
        IN /\ X10(e.votos_validos_calc) = validos
           /\ X10(e.total_votos_calculados) = validos + X10(e.votos_blancos) + X10(e.votos_nulos)

\* C1 witness: this run wrote a record with candidates, blank and null votes.
C1_Witness ==
    \E r \in store :
        /\ r.json.timestamps.extraccion_local = 1
        /\ Len(r.json.detalle_resultados) = 2
        /\ X10(r.json.estadisticas.votos_blancos) = 70
        /\ X10(r.json.estadisticas.votos_nulos) = 70
        /\ X10(r.json.estadisticas.total_votos_calculados) = 210

\* The worker's data calls found nothing: the full-results call and the two
\* special-votes calls returned absent (HTTP 204 or exhausted retries), and
\* the audit and turnout calls returned an object or absent.
SinDatos(w) ==
    /\ wk[w].data_res = JNull /\ wk[w].data_blancos = JNull /\ wk[w].data_nulos = JNull
    /\ wk[w].data_val.t \in {"null", "dict"} /\ wk[w].data_suf.t \in {"null", "dict"}

RegistroEnCero(j) ==
    /\ j.estadisticas.votos_validos_calc = JInt(0)
    /\ j.estadisticas.votos_blancos = JInt(0)
    /\ j.estadisticas.votos_nulos = JInt(0)
    /\ j.estadisticas.total_votos_calculados = JInt(0)
    /\ j.detalle_resultados = <<>>

\* C8: when the data calls of a not yet persisted station found nothing, the
\* Record Builder still hands a record to the upsert (after the download of
\* the scanned document, when the station names one), with valid, blank,
\* null and total votes 0 and no candidates; the upsert either commits
\* exactly that row or fails with a storage error.
C8_AbsenceStillPersisted ==
    [][\A w \in Workers :
          /\ (wk[w].pc = "armar" /\ SinDatos(w) /\ wk'[w] # wk[w]) =>
                wk'[w].pc = IF Truthy(url_pdf_de(wk[w].item.mesa)) THEN "pdf" ELSE "upsert"
          /\ (wk[w].pc \in {"armar", "pdf"} /\ SinDatos(w) /\ wk'[w].pc = "upsert") =>
                (RegistroEnCero(wk'[w].json_final)
                   /\ wk'[w].json_final.id_jrv = id_jrv_de(wk[w].item.mesa).n)
          /\ (wk[w].pc = "pdf" /\ SinDatos(w) /\ wk'[w] # wk[w]) => wk'[w].pc = "upsert"
          /\ (wk[w].pc = "upsert" /\ SinDatos(w) /\ wk'[w] # wk[w]) =>
                /\ hist'[wk[w].item.seq].upserts = 1
                /\ \/ hist'[wk[w].item.seq].fin = "error_db" /\ store' = store
                   \/ /\ hist'[wk[w].item.seq].fin = "persistido"
                      /\ \E r \in store' : r.json = wk[w].json_final /\ RegistroEnCero(r.json)
      ]_vars

\* C8 witness: all five data calls returned absent and the all-zero record is
\* at the upsert.
C8_Witness ==
    /\ wk[1].pc = "upsert" /\ SinDatos(1)
    /\ wk[1].data_val = JNull /\ wk[1].data_suf = JNull
    /\ RegistroEnCero(wk[1].json_final)

\* C9 as claimed: no shape of the upstream responses makes the handling of
\* an item end with an exception; the record is always built and upserted.
C9_AsClaimed == \A i \in DOMAIN hist : hist[i].fin # "worker_error"

(***************************************************************************)
(* Claims about the pipeline (Spec).                                       *)
(***************************************************************************)
FilasCompletas == {FilaPrevia(id) : id \in IdsRemotos}

SinLlamadas == \A i \in DOMAIN hist : hist[i].llamadas = 0 /\ hist[i].upserts = 0

\* C2: an item whose station the Navigator found in the store is never
\* enqueued; an item whose station the worker found in the store gets no
\* data call and no upsert; and in a run started with every remote station
\* persisted the store never changes and no data call or upsert is made.
C2_Idempotence ==
    /\ [](\A i \in DOMAIN hist :
             /\ hist[i].nav_existia # "si"
             /\ hist[i].existia = "si" =>
                   (hist[i].llamadas = 0 /\ hist[i].upserts = 0 /\ hist[i].fin = "omitido"))
    /\ (store = FilasCompletas => [](store = FilasCompletas /\ SinLlamadas))

\* C2 witness: a worker found the station of its item already persisted (the
\* station listed twice, persisted meanwhile) and skipped it.
C2_Witness ==
    \E i \in DOMAIN hist :
        hist[i].existia = "si" /\ hist[i].fin = "omitido" /\ hist[i].llamadas = 0

\* C3: the queue never holds more than maxsize items; an item is added only
\* when the queue holds fewer than maxsize; and while the queue is full the
\* suspended put adds nothing and the Navigator does not move.
C3_Backpressure ==
    /\ [](Len(queue) <= maxsize)
    /\ [][ /\ Len(queue') > Len(queue) => Len(queue) < maxsize
           /\ (nav.pc = "put" /\ Len(queue) >= maxsize) =>
                 (nav' = nav /\ Len(queue') <= Len(queue)) ]_vars

\* C3 witness: the Navigator is suspended in put on a full queue.
C3_Witness == nav.pc = "put" /\ Len(queue) = maxsize

EnCola(i) == \E k \in 1..Len(queue) : queue[k].seq = i
EnManos(i) == {w \in Workers : wk[w].item.seq = i}

\* C4: every accepted item is taken by at most one worker and handled at
\* most once; it is in the queue exactly until a worker takes it; and when
\* the run is over every accepted item has been taken by exactly one worker
\* and handled exactly once.
C4_ExactlyOnce ==
    \A i \in DOMAIN hist :
        /\ Cardinality(hist[i].by) <= 1
        /\ hist[i].n <= 1
        /\ EnCola(i) <=> hist[i].by = {}
        /\ Cardinality({k \in 1..Len(queue) : queue[k].seq = i}) <= 1
        /\ EnManos(i) \subseteq hist[i].by
        /\ hist[i].n = 1 => hist[i].by # {}
        /\ nav.pc = "fin" => (Cardinality(hist[i].by) = 1 /\ hist[i].n = 1)

\* C4 witness: the run is over and both workers have handled items.
C4_Witness ==
    /\ nav.pc = "fin" /\ Len(hist) >= 3
    /\ \E i, j \in DOMAIN hist : hist[i].by = {1} /\ hist[j].by = {2}

Terminales == {"sin_id", "omitido", "worker_error", "persistido", "error_db"}

\* C5: once any worker has been cancelled, the traversal is over, the queue
\* is empty, no worker holds an item, and every accepted item was handled to
\* its end (skipped, discarded with an error, or its upsert attempted).
C5_CancelAfterDrain ==
    (\E w \in Workers : cancel[w]) =>
        /\ nav.pc = "fin" /\ nav.pila = << <<>> >>
        /\ queue = <<>>
        /\ \A w \in Workers : wk[w].item = NoItem
        /\ \A i \in DOMAIN hist : hist[i].n = 1 /\ hist[i].fin \in Terminales

\* C5 witness: the workers are cancelled after items were handled.
C5_Witness ==
    /\ \A w \in Workers : cancel[w]
    /\ \E i \in DOMAIN hist : hist[i].fin = "persistido"
    /\ \E i \in DOMAIN hist : hist[i].fin = "worker_error"

\* The path of the discovery request below node nodo of the listing at ruta.
Hijo(ruta, nodo) == Append(ruta, IdNodo(Len(ruta) + 1, nodo).s)

\* The discovery requests the remote dataset gives rise to, level by level,
\* and for each of them the requests for the nodes it returns.
HijosDe(ruta) == {Hijo(ruta, Remoto(ruta)[k]) : k \in 1..Len(Remoto(ruta))}
RutasNivel1 == {<<deptos_list[i].id>> : i \in 1..NumDeptos}
RutasNivel2 == UNION {HijosDe(r) : r \in RutasNivel1}
RutasNivel3 == UNION {HijosDe(r) : r \in RutasNivel2}
RutasNivel4 == UNION {HijosDe(r) : r \in RutasNivel3}
RutasInternas == RutasNivel1 \cup RutasNivel2 \cup RutasNivel3
HijosRemotos == [r \in RutasInternas |-> HijosDe(r)]
MesasRemotas == [r \in RutasNivel4 |-> {Remoto(r)[k] : k \in 1..Len(Remoto(r))}]

\* The Navigator has asked for the municipalities of every department and
\* for the children of every node a successful discovery returned; every
\* station of every leaf listing it received was looked up, and each one not
\* found persisted was enqueued.
TodoVisitado ==
    LET pedidas == {v.ruta : v \in nav.visto} IN
    /\ RutasNivel1 \subseteq pedidas
    /\ \A v \in nav.visto : (v.ok /\ Len(v.ruta) < 4) => HijosRemotos[v.ruta] \subseteq pedidas
    /\ \A v \in nav.visto : (v.ok /\ Len(v.ruta) = 4) =>
          \A mesa \in MesasRemotas[v.ruta] :
              \E m \in nav.mesas :
                  /\ m.ruta = v.ruta /\ m.mesa = mesa
                  /\ m.existia # "si" => m.seq \in DOMAIN hist

\* C13: whatever branches failed for good, once the traversal is over and
\* the queue has drained, every sibling branch and every later department
\* has been visited, every station discovered there and not found persisted
\* has been enqueued, and every enqueued item was handled to its end.
C13_BranchIsolation ==
    ((nav.pc = "join" /\ unfinished = 0) \/ nav.pc = "fin") =>
        (TodoVisitado /\ \A i \in DOMAIN hist : hist[i].fin \in Terminales)

\* C13 witness: the zones of the first municipality of department 02 failed
\* for good, and a station of its sibling municipality was enqueued and
\* persisted.
C13_Witness ==
    /\ nav.pc = "fin"
    /\ [ruta |-> <<"02", "004">>, ok |-> FALSE] \in nav.visto
    /\ \E m \in nav.mesas :
          /\ m.ruta = <<"02", "002", "02", "0002">> /\ m.seq \in DOMAIN hist
          /\ hist[m.seq].fin = "persistido"

\* C14 as claimed: whatever degrades (branches, data responses, discovery
\* payloads, assets, store operations), main ends normally and the summary
\* is written with status SUCCESS, never with an error status.
C14_AsClaimed == nav.pc \notin {"error", "abort"} /\ nav.status \in {"", "SUCCESS"}

\* C6 as claimed: a worker cancelled while suspended on queue.get() ends
\* without raising, and the items acknowledged with task_done never exceed
\* the items dequeued.
C6_AsClaimed ==
    /\ \A w \in Workers : wk[w].pc # "ValueError"
    /\ Len(hist) - unfinished <= Cardinality({i \in DOMAIN hist : hist[i].by # {}})

ExtractInit ==
    /\ ex_pc = "call" /\ resp \in RespuestasVotos /\ extraido = Ok(JInt(0))
    /\ ft = FetchIdle /\ fnr = RobustIdle
    /\ PipeIdle

\* votos_blancos = extraer_votos(data_blancos)
Extraer ==
    /\ ex_pc = "call"
    /\ extraido' = extraer_votos(resp)
    /\ ex_pc' = "ret"
    /\ UNCHANGED <<resp, ft, fnr, pipeVars>>

ExtractNext == Extraer

ExtractSpec == ExtractInit /\ [][ExtractNext]_vars

(***************************************************************************)
(* Shapes named by the claims about extraer_votos.                         *)
(***************************************************************************)
EsNumero(v) == v.t \in {"int", "float"}
EsLineItem(it) == it.t = "dict" /\ "votos" \in DOMAIN it.d /\ EsNumero(it.d["votos"])
EsColeccion(v) == v.t = "list" /\ \A i \in 1..Len(v.items) : EsLineItem(v.items[i])

\* Sum, in tenths, of the votos of the first n line items.
RECURSIVE SumaX10(_, _)
SumaX10(items, n) ==
    IF n = 0 THEN 0 ELSE SumaX10(items, n - 1) + X10(items[n].d["votos"])

Abs(k) == IF k >= 0 THEN k ELSE -k
Extrae(x10) == extraido.ok /\ IsPyNumber(extraido.val) /\ X10(extraido.val) = x10

Ejemplos7 ==
    { JDict([votos |-> JInt(7)]),
      JDict([resultados |-> JList(<<JDict([votos |-> JInt(3)]), JDict([votos |-> JInt(4)])>>)]),
      JInt(7) }

\* C7 as claimed: extraer_votos returns 0 for an absent response, the number
\* itself for a bare number, the sum of the items' votos for a collection of
\* line items, the sum of the nested items' votos for an object with a
\* resultados collection, and the votos value for an object with a direct
\* votos field; the three example shapes all extract 7.
C7_AsClaimed ==
    ex_pc = "ret" =>
        /\ resp = JNull => Extrae(0)
        /\ EsNumero(resp) => Extrae(X10(resp))
        /\ EsColeccion(resp) => Extrae(SumaX10(resp.items, Len(resp.items)))
        /\ (resp.t = "dict" /\ "resultados" \in DOMAIN resp.d
              /\ EsColeccion(resp.d["resultados"])) =>
                 Extrae(SumaX10(resp.d["resultados"].items, Len(resp.d["resultados"].items)))
        /\ (resp.t = "dict" /\ "votos" \in DOMAIN resp.d /\ EsNumero(resp.d["votos"])) =>
                 Extrae(X10(resp.d["votos"]))
        /\ resp \in Ejemplos7 => Extrae(70)

\* C7 as amended: a bare number extracts its integer part (truncation toward
\* zero, the number itself when it is integral), and the direct votos field
\* is used only by an object that has no resultados key; the other cases and
\* the three examples are as claimed.
C7_ExtraerVotosShapes ==
    ex_pc = "ret" =>
        /\ resp = JNull => Extrae(0)
        /\ EsNumero(resp) =>
              /\ extraido.ok /\ extraido.val.t = "int"
              /\ extraido.val.n * X10(resp) >= 0
              /\ Abs(extraido.val.n) * 10 <= Abs(X10(resp))
              /\ Abs(X10(resp)) < Abs(extraido.val.n) * 10 + 10
        /\ EsColeccion(resp) => Extrae(SumaX10(resp.items, Len(resp.items)))
        /\ (resp.t = "dict" /\ "resultados" \in DOMAIN resp.d
              /\ EsColeccion(resp.d["resultados"])) =>
                 Extrae(SumaX10(resp.d["resultados"].items, Len(resp.d["resultados"].items)))
        /\ (resp.t = "dict" /\ "votos" \in DOMAIN resp.d /\ EsNumero(resp.d["votos"])
              /\ "resultados" \notin DOMAIN resp.d) =>
                 Extrae(X10(resp.d["votos"]))
        /\ resp \in Ejemplos7 => Extrae(70)

\* C7 witness: extraer_votos has run on the nested-collection example.
C7_Witness ==
    /\ ex_pc = "ret"
    /\ resp = JDict([resultados |->
                 JList(<<JDict([votos |-> JInt(3)]), JDict([votos |-> JInt(4)])>>)])
    /\ extraido = Ok(JInt(7))


(***************************************************************************)
(* The Asset Store under AssetSpec.  wk[w].desc is the history of the      *)
(* calls of descargar_asset made for the item worker w holds.              *)
(***************************************************************************)
LlamadasDe(w) == {wk[w].desc[k] : k \in DOMAIN wk[w].desc}
Fallos == {"status", "excepcion", "escritura"}

\* C15 as claimed: a call of descargar_asset for a file that exists with
\* non-zero size returns the file name (and sends no request).
C15_AsClaimed ==
    \A w \in Workers : \A c \in LlamadasDe(w) : c.habia = "lleno" => c.ret = "file"

\* C15 as amended: a call of descargar_asset for a file that exists with
\* non-zero size never reaches the request, hence neither fetches nor writes:
\* it returns at once, the file name when it was given a URL and None when
\* it was not; this holds for files left by an earlier process and for files
\* downloaded earlier in this one.
C15_ExistingAssetSkipped ==
    \A w \in Workers : \A c \in LlamadasDe(w) :
        c.habia = "lleno" =>
            /\ c.o = ""
            /\ c.ret = IF Truthy(c.url) THEN "file" ELSE "None"

\* C15 witness: a call with a URL found the logo that another call had
\* downloaded in this process, and returned its name.
C15_Witness ==
    \E w \in Workers : \E c \in LlamadasDe(w) :
        /\ c.habia = "lleno" /\ Truthy(c.url) /\ c.ret = "file"
        /\ EscritosEn(disk, c.file) = 1

\* C16: descargar_asset never raises: without a URL, on a status other than
\* 200, on a transport exception and on a write exception it returns None,
\* and the item that owns the asset goes on to its upsert.
C16_AssetFailureNotFatal ==
    /\ \A w \in Workers : \A c \in LlamadasDe(w) :
          /\ c.ret \in {"pend", "None", "file"}
          /\ ~Truthy(c.url) => c.ret = "None"
          /\ c.o \in Fallos => c.ret = "None"
          /\ c.o = "200" => c.ret = "file"
    /\ \A w \in Workers :
          wk[w].pc \in {"get", "armar", "imgs", "pdf", "upsert"}
    /\ \A i \in DOMAIN hist : hist[i].fin \in {"", "persistido", "error_db"}

\* C16 witness: every download of an item failed, in each of the four ways,
\* and its record is stored.
C16_Witness ==
    /\ \E w \in Workers :
          /\ wk[w].pc = "upsert"
          /\ \A c \in LlamadasDe(w) : c.ret = "None"
          /\ {c.o : c \in LlamadasDe(w)} = Fallos \cup {""}
    /\ \E i \in DOMAIN hist : hist[i].fin = "persistido"

\* C18 as claimed: no file is fetched and written by more than one download
\* in the lifetime of the process.
C18_AsClaimed == \A e \in disk : e.escritos <= 1

\* C17: whatever the interleaving of the upserts, the store holds at most
\* one row per station id, and the row of a station is, whole, the row of
\* the last upsert committed for it, also when two workers both passed the
\* existence check for the station and both wrote.
C17_LastWriteWins ==
    /\ \A r1, r2 \in store : r1.id_jrv = r2.id_jrv => r1 = r2
    /\ \A i \in DOMAIN hist : hist[i].fila # NoFila => hist[i].fila \in store

\* C17 witness: two items of one station were both handled with the station
\* absent from the store, both committed, and the row is the later one's.
C17_Witness ==
    \E i, j \in DOMAIN hist :
        /\ i # j
        /\ hist[i].fin = "persistido" /\ hist[j].fin = "persistido"
        /\ hist[i].existia = "no" /\ hist[j].existia = "no"
        /\ hist[i].fila = NoFila
        /\ hist[j].fila \in store /\ hist[j].fila.id_jrv = 1

C20_UpsertFailureContained ==
    [][\A w \in Workers :
          (/\ wk[w].pc = "upsert"
           /\ hist'[wk[w].item.seq].upserts = hist[wk[w].item.seq].upserts + 1
           /\ hist'[wk[w].item.seq].fin # "persistido")
          => /\ hist'[wk[w].item.seq].fin = "error_db"
             /\ store' = store
             /\ wk'[w] = WorkerIdle]_vars

\* C20 witness: the upsert of an item raised, its station is not in the
\* store, and the worker that handled it has pulled another item.
C20_Witness ==
    \E i \in DOMAIN hist : \E w \in hist[i].by :
        /\ hist[i].fin = "error_db" /\ hist[i].existia = "no"
        /\ wk[w].item.seq \notin {0, i}
        /\ \E m \in nav.mesas :
              /\ m.seq = i /\ m.ruta = <<"02", "004", "01", "0004">>
              /\ ~verify_db_existance(2)

(***************************************************************************)
(* The stations the Navigator discovers and the work items it makes of     *)
(* them.  GeoRemota is read off the remote dataset, path by path: the      *)
(* codes and names of the department, municipality, zone and center above  *)
(* each leaf listing.                                                      *)
(***************************************************************************)
NodoDe(lista, k, id) ==
    lista[CHOOSE i \in 1..Len(lista) : IdNodo(k, lista[i]).s = id]

GeoDeRuta(r) ==
    LET n1 == NodoDe(DeptosRecorridos, 1, r[1])
        n2 == NodoDe(Remoto(<<r[1]>>), 2, r[2])
        n3 == NodoDe(Remoto(<<r[1], r[2]>>), 3, r[3])
        n4 == NodoDe(Remoto(<<r[1], r[2], r[3]>>), 4, r[4])
    IN [ ids |-> [depto |-> JStr(r[1]), muni |-> JStr(r[2]),
                  zona |-> JStr(r[3]), centro |-> JStr(r[4])],
         noms |-> [depto |-> NomNodo(1, n1), muni |-> NomNodo(2, n2),
                   zona |-> NomNodo(3, n3), centro |-> NomNodo(4, n4)] ]

GeoRemota == [r \in RutasNivel4 |-> GeoDeRuta(r)]

\* The work items that are in the queue or in a worker's hands.
ItemsVivos ==
    {queue[k] : k \in DOMAIN queue} \cup {wk[w].item : w \in {v \in Workers : wk[v].item.seq # 0}}

\* C21: a station of a leaf listing is looked up once; found persisted, it
\* gets no work item; otherwise it gets exactly one, which carries the
\* station payload and the codes and names of the department, municipality,
\* zone and center of the listing; and when the traversal is over every
\* station of every listing received has been looked up, and enqueued
\* unless found persisted.
C21_StationEnqueueRule ==
    /\ \A m \in nav.mesas :
          /\ m.existia = "si" <=> m.seq = 0
          /\ m.seq # 0 => m.seq \in DOMAIN hist
          /\ \A m2 \in nav.mesas :
                (m2.seq = m.seq /\ m.seq # 0) \/ (m2.ruta = m.ruta /\ m2.mesa = m.mesa)
                    => m2 = m
    /\ \A i \in DOMAIN hist : \E m \in nav.mesas : m.seq = i
    /\ \A it \in ItemsVivos :
          \E m \in nav.mesas :
              /\ m.seq = it.seq /\ it.mesa = m.mesa
              /\ it.ids_geo = GeoRemota[m.ruta].ids
              /\ it.noms_geo = GeoRemota[m.ruta].noms
    /\ nav.pc \in {"join", "fin"} =>
          \A v \in nav.visto : (v.ok /\ Len(v.ruta) = 4) =>
              \A mesa \in MesasRemotas[v.ruta] :
                  \E m \in nav.mesas : m.ruta = v.ruta /\ m.mesa = mesa

\* C21 witness: the traversal is over; station 2 was found persisted and
\* got no item, and station 1 of center 0001 was not and its item, with the
\* path of that center, is in a worker's hands.
C21_Witness ==
    /\ nav.pc = "join"
    /\ \E m \in nav.mesas : m.existia = "si" /\ m.seq = 0 /\ m.mesa = JDict([numero |-> JInt(2)])
    /\ \E m \in nav.mesas : \E w \in Workers :
          /\ m.ruta = <<"01", "001", "01", "0001">> /\ m.existia = "no"
          /\ wk[w].item.seq = m.seq
          /\ wk[w].item.noms_geo.centro = JStr("Escuela_A")

\* C22 as claimed: every work item on the queue or in a worker's hands
\* carries a station id that is a positive integer, and no item ends at the
\* worker's test for a missing id.
C22_AsClaimed ==
    /\ \A it \in ItemsVivos :
          LET id == id_jrv_de(it.mesa) IN id.t = "int" /\ id.n > 0
    /\ \A i \in DOMAIN hist : hist[i].fin # "sin_id"

\* C23 as claimed: no two work items that are on the queue or in a worker's
\* hands at the same time carry the same station id.
C23_AsClaimed ==
    \A a, b \in ItemsVivos :
        (a.seq # b.seq /\ Truthy(id_jrv_de(a.mesa))) => id_jrv_de(a.mesa) # id_jrv_de(b.mesa)

\* The data calls of the item of worker w that are in flight.
EnVuelo(w) == {c \in LlamadasDatos : wk[w].plan[c] = "vuelo"}

\* C24: within the handling of one item the three main calls are started
\* together, the blank-votes call is not started before all three have
\* returned, the null-votes call is not started before the blank-votes call
\* has returned, and so at most three data calls of the item are in flight
\* at any time.
C24_RequestPlanOrdered ==
    \A w \in Workers :
        LET p == wk[w].plan IN
        /\ \A c, d \in LlamadasMain : p[c] = "no" <=> p[d] = "no"
        /\ p["blancos"] # "no" => \A c \in LlamadasMain : p[c] = "vuelto"
        /\ p["nulos"] # "no" => p["blancos"] = "vuelto"
        /\ Cardinality(EnVuelo(w)) <= 3

\* C24 witness: one worker has its three main calls in flight while the
\* other, whose main calls and blank-votes call have returned, has its
\* null-votes call in flight.
C24_Witness ==
    \E w, v \in Workers :
        /\ EnVuelo(w) = LlamadasMain
        /\ EnVuelo(v) = {"nulos"} /\ wk[v].plan["blancos"] = "vuelto"

\* The downloads of candidate images among the calls made for the item of
\* worker w.
Imagenes(w) == {c \in LlamadasDe(w) : c.file[1] \in {"Partido", "Cand"}}

\* C25: once the totals of an item are computed (the handling is at the
\* download of the document or at the upsert) every image download of the
\* item has returned, with success or not; and the record that goes to the
\* upsert has the counts of the data responses (candidates 3 and 4, blank
\* 2, null 1) whatever each download came to.
C25_ImagesJoinedBeforeTotals ==
    \A w \in Workers :
        /\ wk[w].pc \in {"pdf", "upsert"} =>
              \A c \in Imagenes(w) : c.ret \in {"None", "file"}
        /\ wk[w].pc = "upsert" =>
              /\ Cardinality(Imagenes(w)) >= 2
              /\ wk[w].json_final.estadisticas.votos_validos_calc = JInt(7)
              /\ wk[w].json_final.estadisticas.votos_blancos = JInt(2)
              /\ wk[w].json_final.estadisticas.votos_nulos = JInt(1)
              /\ wk[w].json_final.estadisticas.total_votos_calculados = JInt(10)

\* C25 witness: the records of two items are at the upsert, the logo
\* downloads of one having succeeded and those of the other having failed.
C25_Witness ==
    \E w, v \in Workers :
        /\ wk[w].pc = "upsert" /\ wk[v].pc = "upsert"
        /\ \E c \in Imagenes(w) : c.o = "200"
        /\ \A c \in Imagenes(v) : c.ret = "None"
        /\ \E c \in Imagenes(v) : c.o = "excepcion"

\* The download of the scanned document among the calls made for the item
\* of worker w.
Documentos(w) == {c \in LlamadasDe(w) : c.file[1] = "HND_2025_JRV"}

\* C26 as claimed: in the record that goes to the upsert, the local
\* document reference is null (and pdf_descargado false) when the download
\* of the document returned absent, and non-null only when the document was
\* downloaded or was already there with non-zero size.
C26_AsClaimed ==
    \A w \in Workers : \A c \in Documentos(w) :
        wk[w].pc = "upsert" =>
            LET doc == wk[w].json_final.documentos IN
            /\ c.ret = "None" => (doc.pdf_nombre_local = JNull /\ ~doc.pdf_descargado)
            /\ doc.pdf_nombre_local # JNull => (c.o = "200" \/ c.habia = "lleno")

\* The station the Navigator made item i of.
VistaDe(i) == CHOOSE m \in nav.mesas : m.seq = i

\* C27: wherever the Navigator has moved on to, the payload of the data
\* calls of an item in flight has the codes of the department,
\* municipality, zone and center under which its station was discovered,
\* and a record committed for an item has the codes and names of that same
\* path, in its document and in its columns.
C27_GeoPathUnchanged ==
    /\ \A w \in Workers :
          wk[w].pc \in {"main", "blancos", "nulos", "armar", "imgs", "pdf", "upsert"} =>
              LET r == VistaDe(wk[w].item.seq).ruta
                  pl == payload_base(id_jrv_de(wk[w].item.mesa).n, wk[w].item.ids_geo)
              IN /\ pl.depto = JStr(r[1]) /\ pl.mcpio = JStr(r[2])
                 /\ pl.zona = JStr(r[3]) /\ pl.pesto = JStr(r[4])
                 /\ pl.mesa = id_jrv_de(VistaDe(wk[w].item.seq).mesa).n
    /\ \A i \in DOMAIN hist :
          hist[i].fila # NoFila =>
              LET geo == GeoRemota[VistaDe(i).ruta]
                  g == hist[i].fila.json.geografia
              IN /\ g.cod_depto = geo.ids.depto /\ g.nom_depto = geo.noms.depto
                 /\ g.cod_muni = geo.ids.muni /\ g.nom_muni = geo.noms.muni
                 /\ g.cod_zona = geo.ids.zona /\ g.nom_zona = geo.noms.zona
                 /\ g.cod_centro = geo.ids.centro /\ g.nom_centro = geo.noms.centro
                 /\ hist[i].fila.depto_nom = geo.noms.depto
                 /\ hist[i].fila.muni_nom = geo.noms.muni
                 /\ hist[i].fila.centro_nom = geo.noms.centro

\* C27 witness: the Navigator is in department 02 while the item of the
\* station of department 01 is in flight with the names of department 01,
\* and the store holds a committed record with the names of its own path.
C27_Witness ==
    /\ nav.pc = "walk" /\ Ruta(<<nav.pila[1]>>) = <<"02">>
    /\ \E w \in Workers :
          /\ wk[w].pc = "blancos"
          /\ wk[w].item.noms_geo.depto = JStr("Atlantida")
    /\ \E i \in DOMAIN hist :
          /\ hist[i].fila # NoFila /\ hist[i].fila \in store
          /\ hist[i].fila.json.geografia.nom_zona = JStr("URBANA")

\* C28: under fair scheduling the run reaches the point where queue.join()
\* has returned, which main reaches only after every queue.put it was
\* suspended on has completed, with every item the queue accepted handled
\* to a terminal outcome.
C28_QueueProgress ==
    <>(nav.pc = "fin" /\ \A i \in DOMAIN hist : hist[i].fin \in Terminales)

\* C28 witness: the Navigator is suspended in queue.put on a full queue
\* while a worker is handling an item.
C28_Witness ==
    /\ nav.pc = "put" /\ Len(queue) = maxsize
    /\ \E w \in Workers : wk[w].pc = "main"

=============================================================================
